---- MODULE Spec2Model ----
(***************************************************************************)
(* NamedPipeServer (ms-api-server/Services): the named-pipe IPC server of  *)
(* the D365 metadata service.  The module models                           *)
(*   - the message framer (the read loop of HandleClientAsync together     *)
(*     with ExtractCompleteMessage), on the bytes of the pipe,             *)
(*   - the dispatcher (ProcessMessageAsync, HandleRequestAsync,            *)
(*     SendResponseAsync),                                                 *)
(*   - the acceptor tasks (AcceptConnectionsAsync) and the lifecycle       *)
(*     (StartAsync, StopAsync).                                            *)
(* Text is a sequence of characters, a character is a string; the pipe     *)
(* carries a sequence of bytes, a byte is a string of two hex digits.  A   *)
(* whole ASCII JSON text is carried as one element (an ASCII run): UTF-8   *)
(* decoding leaves it as it is.                                            *)
(***************************************************************************)
EXTENDS Integers, Sequences, FiniteSets, TLC

\* ------------------------------------------------------------------------
\* Bounds of the model
\* ------------------------------------------------------------------------
\* _maxConnections: the number of acceptor tasks one start launches
NumAcceptors == 2
\* how many times StartAsync may launch acceptors
MaxStarts == 2
\* how many connections the clients open in total
MaxConnects == 3
\* how many of them they open where the server is also stopped, or where
\* every client write and every handler outcome is tried
MaxSessions == 2
\* how many writes the clients make to their pipes in total
MaxSends == 2
\* how many transport faults (accept, read, write) are injected in total
MaxFaults == 1
\* how many requests each client of the pipelining specification sends
RequestsPerConnection == 2
\* length of the byte sequences the framer is run on
MaxBytes == 4

\* ------------------------------------------------------------------------
\* Text
\* ------------------------------------------------------------------------
Null == "<null>"
NL == "\n"
SP == " "
EAcute == "e-acute"
Replacement == "U+FFFD"
WhiteSpace == {SP, NL, "\t", "\r"}

\* the bytes 0x0A, 0x20, 0x61 and the two bytes of U+00E9
ByteNL == "0A"
ByteSP == "20"
ByteA == "61"
ByteLead == "C3"
ByteCont == "A9"

RECURSIVE UTF8GetString(_)
\* Encoding.UTF8.GetString on the bytes of one read: a two-byte sequence is
\* one character, a lead byte without its continuation byte and a
\* continuation byte without its lead byte are each U+FFFD.
UTF8GetString(bytes) ==
    IF bytes = <<>> THEN <<>>
    ELSE LET b == Head(bytes) IN
         IF b = ByteLead
         THEN IF Len(bytes) >= 2 /\ bytes[2] = ByteCont
              THEN <<EAcute>> \o UTF8GetString(Tail(Tail(bytes)))
              ELSE <<Replacement>> \o UTF8GetString(Tail(bytes))
         ELSE IF b = ByteCont THEN <<Replacement>> \o UTF8GetString(Tail(bytes))
         ELSE IF b = ByteNL THEN <<NL>> \o UTF8GetString(Tail(bytes))
         ELSE IF b = ByteSP THEN <<SP>> \o UTF8GetString(Tail(bytes))
         ELSE IF b = ByteA THEN <<"a">> \o UTF8GetString(Tail(bytes))
         ELSE <<b>> \o UTF8GetString(Tail(bytes))

\* string.IndexOf(c): the 0-based index of the first c, -1 when there is none
IndexOf(content, c) ==
    IF \E i \in 1..Len(content) : content[i] = c
    THEN (CHOOSE i \in 1..Len(content) :
              /\ content[i] = c
              /\ \A j \in 1..(i - 1) : content[j] # c) - 1
    ELSE -1

\* string.Substring(start, length), 0-based
Substring(content, start, length) == SubSeq(content, start + 1, start + length)

RECURSIVE TrimStart(_)
TrimStart(s) ==
    IF s # <<>> /\ Head(s) \in WhiteSpace THEN TrimStart(Tail(s)) ELSE s

RECURSIVE TrimEnd(_)
TrimEnd(s) ==
    IF s # <<>> /\ s[Len(s)] \in WhiteSpace
    THEN TrimEnd(SubSeq(s, 1, Len(s) - 1)) ELSE s

\* string.Trim()
Trim(s) == TrimEnd(TrimStart(s))

\* string.IsNullOrWhiteSpace
IsNullOrWhiteSpace(s) == \A i \in 1..Len(s) : s[i] \in WhiteSpace

\* ------------------------------------------------------------------------
\* Message framer
\* ------------------------------------------------------------------------
\* (mutation) ExtractCompleteMessage that empties the builder
\* (messageBuilder.Clear()) instead of removing the message and its newline
ExtractAndClear(messageBuilder) ==
    LET content == messageBuilder
        newlineIndex == IndexOf(content, NL)
    IN IF newlineIndex >= 0
       THEN [found |-> TRUE,
             message |-> Trim(Substring(content, 0, newlineIndex)),
             builder |-> <<>>]
       ELSE [found |-> FALSE, message |-> <<>>, builder |-> content]

\* (mutation) ExtractCompleteMessage that hands out what the builder holds
\* when there is no newline yet
ExtractEager(messageBuilder) ==
    LET content == messageBuilder
        newlineIndex == IndexOf(content, NL)
    IN IF newlineIndex >= 0
       THEN [found |-> TRUE,
             message |-> Trim(Substring(content, 0, newlineIndex)),
             builder |-> SubSeq(content, newlineIndex + 2, Len(content))]
       ELSE IF content # <<>>
       THEN [found |-> TRUE, message |-> Trim(content), builder |-> <<>>]
       ELSE [found |-> FALSE, message |-> <<>>, builder |-> content]

RECURSIVE ExtractSkipEmpty(_)
\* (mutation) ExtractCompleteMessage that passes over frames that are empty
\* after trimming and returns the first frame that is not
ExtractSkipEmpty(messageBuilder) ==
    LET content == messageBuilder
        newlineIndex == IndexOf(content, NL)
    IN IF newlineIndex >= 0
       THEN IF Trim(Substring(content, 0, newlineIndex)) = <<>>
            THEN ExtractSkipEmpty(SubSeq(content, newlineIndex + 2, Len(content)))
            ELSE [found |-> TRUE,
                  message |-> Trim(Substring(content, 0, newlineIndex)),
                  builder |-> SubSeq(content, newlineIndex + 2, Len(content))]
       ELSE [found |-> FALSE, message |-> <<>>, builder |-> content]

\* ExtractCompleteMessage: the text before the first newline, trimmed, and
\* the builder with that text and the newline removed; found = FALSE (the
\* code returns null) when the builder holds no newline.
ExtractCompleteMessage(messageBuilder) ==
    LET content == messageBuilder
        newlineIndex == IndexOf(content, NL)
    IN IF newlineIndex >= 0
       THEN [found |-> TRUE,
             message |-> Trim(Substring(content, 0, newlineIndex)),
             builder |-> SubSeq(content, newlineIndex + 2, Len(content))]
       ELSE [found |-> FALSE, message |-> <<>>, builder |-> content]

RECURSIVE ExtractAll(_)
\* the inner while loop of HandleClientAsync: every complete message of the
\* builder, in order, and what is left in the builder
ExtractAll(messageBuilder) ==
    LET e == ExtractCompleteMessage(messageBuilder) IN
    IF e.found
    THEN LET rest == ExtractAll(e.builder)
         IN [messages |-> <<e.message>> \o rest.messages, builder |-> rest.builder]
    ELSE [messages |-> <<>>, builder |-> messageBuilder]

\* one pass of the read loop: decode the bytes of the read, append them to
\* the builder, extract every complete message
ReadAndFrame(messageBuilder, readBytes) ==
    ExtractAll(messageBuilder \o UTF8GetString(readBytes))

\* ------------------------------------------------------------------------
\* Requests, responses, handlers
\* ------------------------------------------------------------------------
\* JSON texts the clients send; each is an ASCII run
JPing1 == "{id:1,action:ping}"
JPing2 == "{id:2,action:ping}"
JFrob7 == "{id:7,action:frobnicate}"
JNoAction == "{id:3}"
JNullLiteral == "null"
JMalformed == "{id:"
JNumber == "42"

\* what JsonConvert.DeserializeObject<ServiceRequest> makes of the texts
\* that are JSON objects (a missing member is null)
RequestOf(text) ==
    CASE text = JPing1 -> [Id |-> "1", Action |-> "ping"]
      [] text = JPing2 -> [Id |-> "2", Action |-> "ping"]
      [] text = JFrob7 -> [Id |-> "7", Action |-> "frobnicate"]
      [] text = JNoAction -> [Id |-> "3", Action |-> Null]
ObjectTexts == {JPing1, JPing2, JFrob7, JNoAction}
\* the texts that are not a JSON object: malformed JSON, the literal null,
\* a JSON number
NonObjectTexts == {JMalformed, JNullLiteral, JNumber}

\* JsonConvert.DeserializeObject<ServiceRequest>(message): a reference to
\* the request (<<>> is the null reference), or a JsonException
DeserializeObject(message) ==
    IF Len(message) = 1 /\ message[1] \in ObjectTexts
    THEN [threw |-> FALSE, request |-> <<RequestOf(message[1])>>, error |-> Null]
    ELSE IF message = <<JNullLiteral>>
    THEN [threw |-> FALSE, request |-> <<>>, error |-> Null]
    ELSE IF message = <<JNumber>>
    THEN [threw |-> TRUE, request |-> <<>>, error |-> "Error converting value"]
    ELSE [threw |-> TRUE, request |-> <<>>, error |-> "Unexpected character"]

\* ServiceResponse.CreateError / CreateSuccess
CreateError(msg) ==
    [Id |-> Null, Success |-> FALSE, Data |-> Null, Error |-> msg,
     ProcessingTimeMs |-> "unset"]
CreateSuccess(data) ==
    [Id |-> Null, Success |-> TRUE, Data |-> data, Error |-> Null,
     ProcessingTimeMs |-> "unset"]

\* the action keys of the handler registry
Registry == {"ping"}
\* RequestHandlerFactory.HasHandler
HasHandler(action) == action \in Registry

\* $"{x}" of a string that may be null
Interpolate(x) == IF x = Null THEN "" ELSE x

\* What IRequestHandler.HandleAsync can do: return a response (with an id of
\* its own, or none), return the null reference, or throw.
HandlerResponses ==
    { [CreateSuccess("pong") EXCEPT !.Id = "h9"],
      CreateSuccess("pong"),
      [CreateError("handler refused") EXCEPT !.Id = "h9"] }
ExceptionTypes == {"NotSupportedException", "InvalidOperationException"}
HandlerOutcomes ==
    [kind : {"return"}, response : HandlerResponses, exType : {Null}, exMessage : {Null}]
    \cup [kind : {"returnNull"}, response : {CreateError(Null)}, exType : {Null}, exMessage : {Null}]
    \cup [kind : {"throw"}, response : {CreateError(Null)}, exType : ExceptionTypes, exMessage : {"boom"}]

\* the handler behaviours of the many-connection specification: a response
\* with the handler's own id, null, an exception
RequestOutcomes ==
    { o \in HandlerOutcomes :
        \/ o.kind = "return" /\ o.response.Id = "h9" /\ o.response.Success
        \/ o.kind = "returnNull"
        \/ o.kind = "throw" /\ o.exType = "InvalidOperationException" }

\* (mutation) HandleRequestAsync without the HasHandler check: GetHandler
\* throws for an action without a handler and the general catch answers
HandleRequestNoLookup(request, outcome) ==
    IF ~HasHandler(request.Action)
    THEN <<CreateError("Unsupported action: " \o Interpolate(request.Action))>>
    ELSE CASE outcome.kind = "return" -> <<outcome.response>>
           [] outcome.kind = "returnNull" -> <<>>
           [] outcome.kind = "throw" /\ outcome.exType = "NotSupportedException" ->
                <<CreateError("Unsupported action: " \o Interpolate(request.Action))>>
           [] outcome.kind = "throw" /\ outcome.exType # "NotSupportedException" ->
                <<CreateError("Request handling failed: " \o outcome.exMessage)>>

\* (mutation) HandleRequestAsync whose catch clauses log and fall through
\* without a response
HandleRequestNoAnswer(request, outcome) ==
    IF ~HasHandler(request.Action)
    THEN <<CreateError("Unknown action: " \o Interpolate(request.Action))>>
    ELSE CASE outcome.kind = "return" -> <<outcome.response>>
           [] outcome.kind # "return" -> <<>>

\* (mutation) HandleRequestAsync whose general catch does not put the
\* exception's message into the error
HandleRequestNoMessage(request, outcome) ==
    IF ~HasHandler(request.Action)
    THEN <<CreateError("Unknown action: " \o Interpolate(request.Action))>>
    ELSE CASE outcome.kind = "return" -> <<outcome.response>>
           [] outcome.kind = "returnNull" -> <<>>
           [] outcome.kind = "throw" /\ outcome.exType = "NotSupportedException" ->
                <<CreateError("Unsupported action: " \o Interpolate(request.Action))>>
           [] outcome.kind = "throw" /\ outcome.exType # "NotSupportedException" ->
                <<CreateError("Request handling failed")>>

\* (mutation) HandleRequestAsync whose general catch keeps a payload in the
\* error response it builds
HandleRequestErrorWithData(request, outcome) ==
    IF ~HasHandler(request.Action)
    THEN <<CreateError("Unknown action: " \o Interpolate(request.Action))>>
    ELSE CASE outcome.kind = "return" -> <<outcome.response>>
           [] outcome.kind = "returnNull" -> <<>>
           [] outcome.kind = "throw" /\ outcome.exType = "NotSupportedException" ->
                <<CreateError("Unsupported action: " \o Interpolate(request.Action))>>
           [] outcome.kind = "throw" /\ outcome.exType # "NotSupportedException" ->
                <<[CreateError("Request handling failed: " \o outcome.exMessage)
                       EXCEPT !.Data = outcome.exMessage]>>

\* HandleRequestAsync: the error response for an action without a handler;
\* else the handler's result, or the error response of the catch clause its
\* exception lands in.  The result is a reference: <<>> when the handler
\* returned null.
HandleRequestAsync(request, outcome) ==
    IF ~HasHandler(request.Action)
    THEN <<CreateError("Unknown action: " \o Interpolate(request.Action))>>
    ELSE CASE outcome.kind = "return" -> <<outcome.response>>
           [] outcome.kind = "returnNull" -> <<>>
           [] outcome.kind = "throw" /\ outcome.exType = "NotSupportedException" ->
                <<CreateError("Unsupported action: " \o Interpolate(request.Action))>>
           [] outcome.kind = "throw" /\ outcome.exType # "NotSupportedException" ->
                <<CreateError("Request handling failed: " \o outcome.exMessage)>>

\* (mutation) ProcessMessageAsync without the check for a null request: the
\* request is read with null-conditional access and dispatched
ProcessMessageNoNullCheck(message) ==
    IF IsNullOrWhiteSpace(message)
    THEN [invoke |-> FALSE, requestId |-> Null, request |-> <<>>,
          response |-> CreateError("Empty message received")]
    ELSE LET d == DeserializeObject(message) IN
         IF d.threw
         THEN [invoke |-> FALSE, requestId |-> Null, request |-> <<>>,
               response |-> CreateError("JSON parsing error: " \o d.error)]
         ELSE IF d.request = <<>>
         THEN [invoke |-> TRUE, requestId |-> Null,
               request |-> <<[Id |-> Null, Action |-> Null]>>,
               response |-> CreateError(Null)]
         ELSE [invoke |-> TRUE, requestId |-> d.request[1].Id, request |-> d.request,
               response |-> CreateError(Null)]

\* ProcessMessageAsync up to the call of HandleRequestAsync: either the
\* response is decided here (invoke = FALSE), or the message parsed to a
\* request that goes to HandleRequestAsync (invoke = TRUE).  requestId is
\* the local of the code.
ProcessMessageBegin(message) ==
    IF IsNullOrWhiteSpace(message)
    THEN [invoke |-> FALSE, requestId |-> Null, request |-> <<>>,
          response |-> CreateError("Empty message received")]
    ELSE LET d == DeserializeObject(message) IN
         IF d.threw
         THEN [invoke |-> FALSE, requestId |-> Null, request |-> <<>>,
               response |-> CreateError("JSON parsing error: " \o d.error)]
         ELSE IF d.request = <<>>
         THEN [invoke |-> FALSE, requestId |-> Null, request |-> <<>>,
               response |-> CreateError("Invalid JSON request - deserialized to null")]
         ELSE [invoke |-> TRUE, requestId |-> d.request[1].Id, request |-> d.request,
               response |-> CreateError(Null)]

\* (mutation) the id is set only when the handler left it empty
StampMissingId(response, requestId) ==
    [response EXCEPT !.Id = IF @ = Null THEN requestId ELSE @,
                     !.ProcessingTimeMs = "elapsed"]

\* ProcessMessageAsync after the response is known: the id is overwritten
\* with the request's id and the time is stamped
StampResponse(response, requestId) ==
    [response EXCEPT !.Id = requestId, !.ProcessingTimeMs = "elapsed"]

\* ------------------------------------------------------------------------
\* State
\* ------------------------------------------------------------------------
VARIABLES
    isRunning,              \* _isRunning
    cancellationRequested,  \* _cancellationTokenSource has been cancelled
    activePipeHandlers,     \* _activePipeHandlers: the tracked tasks, a list of task ids
    taskCount,              \* how many acceptor tasks have been created so far
    launches,               \* how many StartAsync calls launched acceptors
    ctl,                    \* the caller of StartAsync/StopAsync: "idle", or "stopWait" inside StopAsync's await
    stopSnapshot,           \* _activePipeHandlers.ToArray() of the StopAsync in progress
    lastOp,                 \* the last lifecycle call that returned
    inFlightAtStop,         \* per task: what became of the request its handler was working on when StopAsync cancelled
    pc,                     \* per task: the await the acceptor task is at, or how it ended
    conn,                   \* per task: the connection it serves (see NoConn)
    connects,               \* connections accepted so far
    sends,                  \* client writes so far
    faults,                 \* transport faults so far
    fInput,                 \* framer run: the whole byte sequence
    fRest,                  \* framer run: the bytes no read has returned yet
    fBuilder,               \* framer run: messageBuilder
    fMessages,              \* framer run: the messages extracted so far
    fReads,                 \* framer run: the sizes of the reads so far
    metadata,               \* the items (methods) of the D365 object a batch works on
    batch,                  \* the execute_object_modification call (see NoBatch)
    form,                   \* the create_form calls (see NoForm)
    callers,                \* per concurrent caller of StartAsync/StopAsync: where it is (see NoCall)
    xref                    \* the CrossReferenceHandler and the requests in it (see NoXRef)

lifecycleVars == <<isRunning, cancellationRequested, activePipeHandlers, taskCount,
                   launches, ctl, stopSnapshot, lastOp>>
budgetVars == <<connects, sends, faults>>
framerVars == <<fInput, fRest, fBuilder, fMessages, fReads>>
toolVars == <<metadata, batch, form>>
concurrencyVars == <<callers, xref>>
vars == <<lifecycleVars, inFlightAtStop, pc, conn, budgetVars, framerVars, toolVars,
          concurrencyVars>>

Tasks == 1..(NumAcceptors * MaxStarts)

\* Task.IsCompleted
CompletedStates == {"ranToCompletion", "canceled"}
Completed(t) == pc[t] \in CompletedStates
\* the task is inside HandleClientAsync
ServingStates == {"read", "dispatch", "write"}
Serving(t) == pc[t] \in ServingStates

NoOutcome == [kind |-> "none", response |-> CreateError(Null), exType |-> Null, exMessage |-> Null]
\* the locals of ProcessMessageAsync
NoCur == [message |-> <<>>, requestId |-> Null, request |-> <<>>,
          outcome |-> NoOutcome, response |-> <<>>]
\* A connection:
\*   wire            bytes the client wrote that no read has returned yet
\*   peerClosed      the client closed its end
\*   broken          the pipe stream saw the disconnect (IsConnected is false)
\*   messageBuilder  the StringBuilder of HandleClientAsync
\*   cur             the message ProcessMessageAsync is working on
\*   log             what became of each message of the connection so far, in processing order
\*   sent            the client's writes on the connection, in order
\*   stalled         the client does not read its end and the pipe takes no
\*                   more bytes: a WriteAsync of the server stays pending
\*   discarded       what the StringBuilder of the acceptor's previous
\*                   connection held when its worker returned
NoConn == [wire |-> <<>>, peerClosed |-> FALSE, broken |-> FALSE, messageBuilder |-> <<>>,
           cur |-> NoCur, log |-> <<>>, sent |-> <<>>, stalled |-> FALSE,
           discarded |-> <<>>]

\* the server after its constructor
\* no execute_object_modification call:
\*   state             "idle", "running" (in the loop over modifications) or
\*                     "returned"
\*   modifications     the validated modifications array
\*   i                 the loop index, from 0
\*   operationResults, successCount, failureCount   as in the code
\*   before            the items of the object when the call began
NoBatch == [state |-> "idle", modifications |-> <<>>, i |-> 0, operationResults |-> <<>>,
            successCount |-> 0, failureCount |-> 0, before |-> {}]

\* no create_form call:
\*   state      "idle", "connected" (client.connect() has returned),
\*              "answered" (sendRequest has returned) or "returned"
\*   params     the arguments of the call
\*   request    what was sent to the service
\*   response   what the service answered
\*   result     what the tool returned
\*   connected  the D365ServiceClient of the call is connected
\*   open       the connections to the service that are open, those of
\*              earlier calls included
\*   calls      the calls so far
NoParams == [mode |-> "none", formName |-> "", patternName |-> ""]
NoForm == [state |-> "idle", params |-> NoParams, request |-> <<>>, response |-> "none",
           result |-> "none", connected |-> FALSE, open |-> 0, calls |-> 0]

ToolIdle ==
    /\ metadata = {}
    /\ batch = NoBatch
    /\ form = NoForm

\* the threads that may call StartAsync and StopAsync at the same time
Callers == {1, 2}
\* a caller outside every call:
\*   at        "idle"; "startChecked" between the read of _isRunning and
\*             the write of it in StartAsync; "stopWait" in the await of
\*             StopAsync
\*   snapshot  _activePipeHandlers.ToArray() of its StopAsync
\*   calls     the calls it has made
\*   last      the call of it that returned last
NoCall == [at |-> "idle", snapshot |-> <<>>, calls |-> 0, last |-> "none"]

\* the threads that may be in CrossReferenceHandler.HandleRequestAsync at the
\* same time
Requests == {1, 2}
\* the handler after its constructor, no request in it:
\*   isInitialized     _isInitialized
\*   connectionString  _connectionString ("" for null or empty)
\*   initLock          the thread that holds _initLock, 0 for none
\*   at                per thread: "idle"; "lockWait" at lock (_initLock);
\*                     "discovering" in DiscoverXRefDatabase; "opening" in
\*                     conn.Open(); "query" after EnsureInitialized returned
\*                     true
\*   requests          per thread: the requests it has made
\*   last              per thread: what its last request returned
\*   returnedTrue      some call of EnsureInitialized has returned true
\*   failed            some attempt of EnsureInitialized has returned false
NoXRef == [isInitialized |-> FALSE, connectionString |-> "", initLock |-> 0,
           at |-> [r \in Requests |-> "idle"], requests |-> [r \in Requests |-> 0],
           last |-> [r \in Requests |-> <<"none">>], returnedTrue |-> FALSE,
           failed |-> FALSE]

CallersIdle ==
    /\ callers = [c \in Callers |-> NoCall]
    /\ xref = NoXRef

ServerInit ==
    /\ isRunning = FALSE
    /\ cancellationRequested = FALSE
    /\ activePipeHandlers = <<>>
    /\ taskCount = 0
    /\ launches = 0
    /\ ctl = "idle"
    /\ stopSnapshot = <<>>
    /\ lastOp = "none"
    /\ inFlightAtStop = [t \in Tasks |-> "none"]
    /\ pc = [t \in Tasks |-> "none"]
    /\ conn = [t \in Tasks |-> NoConn]
    /\ connects = 0
    /\ sends = 0
    /\ faults = 0

Init ==
    /\ ServerInit
    /\ fInput = <<>>
    /\ fRest = <<>>
    /\ fBuilder = <<>>
    /\ fMessages = <<>>
    /\ fReads = <<>>
    /\ ToolIdle
    /\ CallersIdle

\* ------------------------------------------------------------------------
\* Lifecycle
\* ------------------------------------------------------------------------
\* (mutation) the acceptor tasks are created, but only the first is added to
\* _activePipeHandlers before StartAsync returns
AcceptConnectionsTrackFirst ==
    LET new == (taskCount + 1)..(taskCount + NumAcceptors) IN
    /\ pc' = [t \in Tasks |->
                IF t \in new
                THEN (IF cancellationRequested THEN "canceled" ELSE "scheduled")
                ELSE pc[t]]
    /\ activePipeHandlers' = Append(activePipeHandlers, taskCount + 1)
    /\ taskCount' = taskCount + NumAcceptors

\* AcceptConnectionsAsync up to its await: Task.Run for each of the
\* _maxConnections acceptors, each added to _activePipeHandlers.  Task.Run
\* with a token that is already cancelled gives a task that is canceled and
\* never runs.
AcceptConnectionsAsync ==
    LET new == (taskCount + 1)..(taskCount + NumAcceptors) IN
    /\ pc' = [t \in Tasks |->
                IF t \in new
                THEN (IF cancellationRequested THEN "canceled" ELSE "scheduled")
                ELSE pc[t]]
    /\ activePipeHandlers' =
           activePipeHandlers \o [i \in 1..NumAcceptors |-> taskCount + i]
    /\ taskCount' = taskCount + NumAcceptors

\* (mutation) StartAsync without the check of _isRunning
StartAsyncUnchecked ==
    /\ ctl = "idle"
    /\ launches < MaxStarts
    /\ isRunning' = TRUE
    /\ AcceptConnectionsAsync
    /\ launches' = launches + 1
    /\ lastOp' = "start"
    /\ UNCHANGED <<cancellationRequested, ctl, stopSnapshot, inFlightAtStop,
                   conn, budgetVars, framerVars, toolVars, concurrencyVars>>

\* StartAsync
StartAsync ==
    /\ ctl = "idle"
    /\ IF isRunning
       THEN /\ lastOp' = "startNoop"
            /\ UNCHANGED <<isRunning, activePipeHandlers, taskCount, launches, pc>>
       ELSE /\ launches < MaxStarts
            /\ isRunning' = TRUE
            /\ AcceptConnectionsAsync
            /\ launches' = launches + 1
            /\ lastOp' = "start"
    /\ UNCHANGED <<cancellationRequested, ctl, stopSnapshot, inFlightAtStop,
                   conn, budgetVars, framerVars, toolVars, concurrencyVars>>

\* (mutation) StopAsync that cancels the token before it checks _isRunning
StopAsyncCancelFirst ==
    /\ ctl = "idle"
    /\ cancellationRequested' = TRUE
    /\ IF ~isRunning
       THEN /\ lastOp' = "stopNoop"
            /\ UNCHANGED <<isRunning, ctl, stopSnapshot, inFlightAtStop>>
       ELSE /\ isRunning' = FALSE
            /\ stopSnapshot' = activePipeHandlers
            /\ ctl' = "stopWait"
            /\ inFlightAtStop' =
                   [t \in Tasks |-> IF pc[t] = "dispatch" THEN "pending" ELSE "none"]
            /\ UNCHANGED lastOp
    /\ UNCHANGED <<activePipeHandlers, taskCount, launches, pc,
                   conn, budgetVars, framerVars, toolVars, concurrencyVars>>

\* StopAsync up to its await of Task.WhenAll
StopAsync ==
    /\ ctl = "idle"
    /\ IF ~isRunning
       THEN /\ lastOp' = "stopNoop"
            /\ UNCHANGED <<isRunning, cancellationRequested, ctl, stopSnapshot,
                           inFlightAtStop>>
       ELSE /\ isRunning' = FALSE
            /\ cancellationRequested' = TRUE
            /\ stopSnapshot' = activePipeHandlers
            /\ ctl' = "stopWait"
            /\ inFlightAtStop' =
                   [t \in Tasks |-> IF pc[t] = "dispatch" THEN "pending" ELSE "none"]
            /\ UNCHANGED lastOp
    /\ UNCHANGED <<activePipeHandlers, taskCount, launches, pc,
                   conn, budgetVars, framerVars, toolVars, concurrencyVars>>

\* (mutation) Task.WhenAny in place of Task.WhenAll
WhenAnyDone(tasks) == \E i \in 1..Len(tasks) : Completed(tasks[i])

\* Task.WhenAll(tasks) has completed: every task has, however it ended
WhenAllDone(tasks) == \A i \in 1..Len(tasks) : Completed(tasks[i])

\* (mutation) StopAsync without the try/catch around Task.WhenAll: when a
\* tracked task ended canceled the await throws and the exception leaves
\* StopAsync before the list is cleared
StopAsyncNoCatch ==
    /\ ctl = "stopWait"
    /\ WhenAllDone(stopSnapshot)
    /\ IF \E i \in 1..Len(stopSnapshot) : pc[stopSnapshot[i]] = "canceled"
       THEN /\ lastOp' = "stopThrew"
            /\ UNCHANGED activePipeHandlers
       ELSE /\ lastOp' = "stop"
            /\ activePipeHandlers' = <<>>
    /\ ctl' = "idle"
    /\ stopSnapshot' = <<>>
    /\ UNCHANGED <<isRunning, cancellationRequested, taskCount, launches, inFlightAtStop,
                   pc, conn, budgetVars, framerVars, toolVars, concurrencyVars>>

\* StopAsync from the completion of Task.WhenAll (the exception it throws for
\* faulted or canceled tasks is caught) to its return
StopAsyncReturn ==
    /\ ctl = "stopWait"
    /\ WhenAllDone(stopSnapshot)
    /\ activePipeHandlers' = <<>>
    /\ ctl' = "idle"
    /\ stopSnapshot' = <<>>
    /\ lastOp' = "stop"
    /\ UNCHANGED <<isRunning, cancellationRequested, taskCount, launches, inFlightAtStop,
                   pc, conn, budgetVars, framerVars, toolVars, concurrencyVars>>

\* ------------------------------------------------------------------------
\* Acceptor tasks: the lambda of AcceptConnectionsAsync.  A task is observed
\* at its awaits; what it does between two awaits is one step.
\* ------------------------------------------------------------------------
\* while (!cancellationToken.IsCancellationRequested): leave the loop (the
\* task runs to completion), or create a pipe instance and wait for a client
LoopHead == IF cancellationRequested THEN "ranToCompletion" ELSE "accept"

\* (mutation) the acceptor keeps the pipe instance and the builder of the
\* connection that ended and uses them again
LeaveClientKeepPipe(c) ==
    [pc |-> LoopHead, conn |-> [c EXCEPT !.cur = NoCur]]

\* HandleClientAsync returns to the acceptor loop: its StringBuilder is gone
\* and the pipe instance is disposed (the history of the connection stays
\* until the acceptor has its next client)
LeaveClient(c) ==
    [pc |-> LoopHead, conn |-> [NoConn EXCEPT !.log = c.log, !.sent = c.sent,
                                              !.discarded = c.messageBuilder]]

\* The loops of HandleClientAsync from the point where the builder may hold
\* a message: the next complete message is extracted and ProcessMessageAsync
\* runs up to its first await (HandleRequestAsync, or SendResponseAsync when
\* the response is already decided); without a complete message the outer
\* while condition decides between the next read and leaving.
ContinueClient(c) ==
    LET e == ExtractCompleteMessage(c.messageBuilder) IN
    IF e.found
    THEN LET p == ProcessMessageBegin(e.message) IN
         [pc |-> IF p.invoke THEN "dispatch" ELSE "write",
          conn |-> [c EXCEPT
                      !.messageBuilder = e.builder,
                      !.cur = [message |-> e.message, requestId |-> p.requestId,
                               request |-> p.request, outcome |-> NoOutcome,
                               response |-> IF p.invoke THEN <<>>
                                            ELSE <<p.response>>]]]
    ELSE IF cancellationRequested \/ c.broken
         THEN LeaveClient(c)
         ELSE [pc |-> "read", conn |-> c]

\* the task created by Task.Run starts to run; a task whose token was
\* cancelled before that ends canceled without running
TaskStart(t) ==
    /\ pc[t] = "scheduled"
    /\ pc' = [pc EXCEPT ![t] = IF cancellationRequested THEN "canceled" ELSE LoopHead]
    /\ UNCHANGED <<lifecycleVars, inFlightAtStop, conn, budgetVars, framerVars, toolVars, concurrencyVars>>

\* (mutation) the acceptor hands the connected pipe to a task of its own and
\* listens again at once, as a server without admission control would
ConnectSpawnsWorker(t) ==
    /\ pc[t] = "accept"
    /\ connects < MaxConnects
    /\ connects' = connects + 1
    /\ \E u \in Tasks :
        /\ pc[u] = "none"
        /\ LET n == ContinueClient(NoConn) IN
           /\ pc' = [pc EXCEPT ![u] = n.pc]
           /\ conn' = [conn EXCEPT ![u] = n.conn]
    /\ UNCHANGED <<lifecycleVars, inFlightAtStop, sends, faults, framerVars, toolVars, concurrencyVars>>

\* (mutation) the StringBuilder belongs to the acceptor and is not renewed
\* for a new client: the worker starts with what the previous one left
ConnectKeepsBuilder(t) ==
    /\ pc[t] = "accept"
    /\ connects < MaxConnects
    /\ connects' = connects + 1
    /\ LET n == ContinueClient([NoConn EXCEPT !.discarded = conn[t].discarded,
                                              !.messageBuilder = conn[t].discarded]) IN
       /\ pc' = [pc EXCEPT ![t] = n.pc]
       /\ conn' = [conn EXCEPT ![t] = n.conn]
    /\ UNCHANGED <<lifecycleVars, inFlightAtStop, sends, faults, framerVars, toolVars,
                   concurrencyVars>>

\* WaitForConnectionAsync returns: a client connected.  HandleClientAsync
\* starts with a new StringBuilder.
Connect(t) ==
    /\ pc[t] = "accept"
    /\ connects < MaxConnects
    /\ connects' = connects + 1
    /\ LET n == ContinueClient([NoConn EXCEPT !.discarded = conn[t].discarded]) IN
       /\ pc' = [pc EXCEPT ![t] = n.pc]
       /\ conn' = [conn EXCEPT ![t] = n.conn]
    /\ UNCHANGED <<lifecycleVars, inFlightAtStop, sends, faults, framerVars, toolVars, concurrencyVars>>

\* a client connects, one of at most MaxSessions
ConnectSession(t) ==
    /\ connects < MaxSessions
    /\ Connect(t)

\* WaitForConnectionAsync throws OperationCanceledException: break
AcceptCancelled(t) ==
    /\ pc[t] = "accept"
    /\ cancellationRequested
    /\ pc' = [pc EXCEPT ![t] = "ranToCompletion"]
    /\ UNCHANGED <<lifecycleVars, inFlightAtStop, conn, budgetVars, framerVars, toolVars, concurrencyVars>>

\* (mutation) catch (Exception) of the acceptor loop breaks out of the loop
AcceptFaultBreaks(t) ==
    /\ pc[t] = "accept"
    /\ faults < MaxFaults
    /\ faults' = faults + 1
    /\ pc' = [pc EXCEPT ![t] = "ranToCompletion"]
    /\ UNCHANGED <<lifecycleVars, inFlightAtStop, conn, connects, sends, framerVars, toolVars, concurrencyVars>>

\* CreatePipeServerInstance or WaitForConnectionAsync throws something else:
\* catch (Exception), then Task.Delay(1000, cancellationToken)
AcceptFault(t) ==
    /\ pc[t] = "accept"
    /\ faults < MaxFaults
    /\ faults' = faults + 1
    /\ pc' = [pc EXCEPT ![t] = "delay"]
    /\ UNCHANGED <<lifecycleVars, inFlightAtStop, conn, connects, sends, framerVars, toolVars, concurrencyVars>>

\* Task.Delay completes: back to the while condition
DelayElapsed(t) ==
    /\ pc[t] = "delay"
    /\ pc' = [pc EXCEPT ![t] = LoopHead]
    /\ UNCHANGED <<lifecycleVars, inFlightAtStop, conn, budgetVars, framerVars, toolVars, concurrencyVars>>

\* Task.Delay throws OperationCanceledException inside the catch block: it
\* leaves the lambda and the task ends canceled
DelayCancelled(t) ==
    /\ pc[t] = "delay"
    /\ cancellationRequested
    /\ pc' = [pc EXCEPT ![t] = "canceled"]
    /\ UNCHANGED <<lifecycleVars, inFlightAtStop, conn, budgetVars, framerVars, toolVars, concurrencyVars>>

\* ------------------------------------------------------------------------
\* Connection worker: HandleClientAsync
\* ------------------------------------------------------------------------
\* ReadAsync returns k > 0 bytes: they are decoded and appended to the
\* builder, then the complete messages are processed
ReadData(t, k) ==
    /\ pc[t] = "read"
    /\ k \in 1..Len(conn[t].wire)
    /\ LET c == conn[t]
           n == ContinueClient(
                    [c EXCEPT !.messageBuilder = @ \o UTF8GetString(SubSeq(c.wire, 1, k)),
                              !.wire = SubSeq(@, k + 1, Len(@))])
       IN /\ pc' = [pc EXCEPT ![t] = n.pc]
          /\ conn' = [conn EXCEPT ![t] = n.conn]
    /\ UNCHANGED <<lifecycleVars, inFlightAtStop, budgetVars, framerVars, toolVars, concurrencyVars>>

\* (mutation) at the end of the stream the worker takes what is left in the
\* builder as a last message
ReadEndFlushes(t) ==
    /\ pc[t] = "read"
    /\ conn[t].wire = <<>>
    /\ conn[t].peerClosed
    /\ LET c == conn[t]
           n == IF c.messageBuilder = <<>>
                THEN LeaveClient(c)
                ELSE ContinueClient([c EXCEPT !.messageBuilder = @ \o <<NL>>,
                                              !.broken = TRUE])
       IN /\ pc' = [pc EXCEPT ![t] = n.pc]
          /\ conn' = [conn EXCEPT ![t] = n.conn]
    /\ UNCHANGED <<lifecycleVars, inFlightAtStop, budgetVars, framerVars, toolVars,
                   concurrencyVars>>

\* ReadAsync returns 0, or throws the IOException of an ended pipe: break
ReadEnd(t) ==
    /\ pc[t] = "read"
    /\ conn[t].wire = <<>>
    /\ conn[t].peerClosed
    /\ pc' = [pc EXCEPT ![t] = LeaveClient(conn[t]).pc]
    /\ conn' = [conn EXCEPT ![t] = LeaveClient(conn[t]).conn]
    /\ UNCHANGED <<lifecycleVars, inFlightAtStop, budgetVars, framerVars, toolVars, concurrencyVars>>

\* ReadAsync throws OperationCanceledException: the outer catch, return
ReadCancelled(t) ==
    /\ pc[t] = "read"
    /\ cancellationRequested
    /\ pc' = [pc EXCEPT ![t] = LeaveClient(conn[t]).pc]
    /\ conn' = [conn EXCEPT ![t] = LeaveClient(conn[t]).conn]
    /\ UNCHANGED <<lifecycleVars, inFlightAtStop, budgetVars, framerVars, toolVars, concurrencyVars>>

\* (mutation) the exception of a failed read is taken as fatal: the worker
\* cancels the token all acceptor tasks share
ReadFaultCancelsAll(t) ==
    /\ pc[t] = "read"
    /\ faults < MaxFaults
    /\ faults' = faults + 1
    /\ cancellationRequested' = TRUE
    /\ pc' = [pc EXCEPT ![t] = "ranToCompletion"]
    /\ conn' = [conn EXCEPT ![t] = NoConn]
    /\ UNCHANGED <<isRunning, activePipeHandlers, taskCount, launches, ctl, stopSnapshot,
                   lastOp, inFlightAtStop, connects, sends, framerVars, toolVars, concurrencyVars>>

\* ReadAsync throws another exception: catch (Exception), log, return
ReadFault(t) ==
    /\ pc[t] = "read"
    /\ faults < MaxFaults
    /\ faults' = faults + 1
    /\ pc' = [pc EXCEPT ![t] = LeaveClient(conn[t]).pc]
    /\ conn' = [conn EXCEPT ![t] = LeaveClient(conn[t]).conn]
    /\ UNCHANGED <<lifecycleVars, inFlightAtStop, connects, sends, framerVars, toolVars, concurrencyVars>>

\* (mutation) SendResponseAsync is not awaited: the handler's response is
\* handed over and the next message is taken up before the write has completed
DispatchThenForget(t, outcome) ==
    /\ pc[t] = "dispatch"
    /\ HasHandler(conn[t].cur.request[1].Action) <=> outcome # NoOutcome
    /\ LET c == conn[t]
           r == HandleRequestAsync(c.cur.request[1], outcome)
           n == ContinueClient(
                    [c EXCEPT !.log = Append(@, [message |-> c.cur.message,
                                                 request |-> c.cur.request,
                                                 outcome |-> outcome,
                                                 response |-> r,
                                                 written |-> FALSE]),
                              !.cur = NoCur])
       IN /\ pc' = [pc EXCEPT ![t] = n.pc]
          /\ conn' = [conn EXCEPT ![t] = n.conn]
    /\ UNCHANGED <<lifecycleVars, inFlightAtStop, budgetVars, framerVars, toolVars, concurrencyVars>>

\* the entry of the log for the message just finished
LogEntry(c, written) ==
    [message |-> c.message, request |-> c.request, outcome |-> c.outcome,
     response |-> c.response, written |-> written]

\* (mutation) the handler is awaited with the cancellation token: once the
\* token is cancelled the invocation is abandoned and HandleClientAsync
\* returns without a response
DispatchCancellable(t, outcome) ==
    /\ pc[t] = "dispatch"
    /\ HasHandler(conn[t].cur.request[1].Action) <=> outcome # NoOutcome
    /\ LET r == HandleRequestAsync(conn[t].cur.request[1], outcome) IN
       IF r = <<>> \/ cancellationRequested
       THEN /\ pc' = [pc EXCEPT ![t] = LeaveClient(conn[t]).pc]
            /\ conn' = [conn EXCEPT ![t] = LeaveClient(conn[t]).conn]
       ELSE /\ pc' = [pc EXCEPT ![t] = "write"]
            /\ conn' = [conn EXCEPT ![t].cur.outcome = outcome, ![t].cur.response = r]
    /\ UNCHANGED <<lifecycleVars, inFlightAtStop, budgetVars, framerVars, toolVars, concurrencyVars>>

\* (mutation) the handlers of all connections run under one lock: a handler
\* completes only when no other connection's handler is in progress
DispatchSerialized(t, outcome) ==
    /\ pc[t] = "dispatch"
    /\ \A u \in Tasks \ {t} : pc[u] # "dispatch"
    /\ HasHandler(conn[t].cur.request[1].Action) <=> outcome # NoOutcome
    /\ LET r == HandleRequestAsync(conn[t].cur.request[1], outcome) IN
       /\ r # <<>>
       /\ pc' = [pc EXCEPT ![t] = "write"]
       /\ conn' = [conn EXCEPT ![t].cur.outcome = outcome, ![t].cur.response = r]
    /\ UNCHANGED <<lifecycleVars, inFlightAtStop, budgetVars, framerVars, toolVars, concurrencyVars>>

\* the await of HandleRequestAsync completes.  A null response makes
\* response.Id = requestId throw: the exception leaves ProcessMessageAsync
\* and is caught by catch (Exception) of HandleClientAsync, which returns.
Dispatch(t, outcome) ==
    /\ pc[t] = "dispatch"
    /\ HasHandler(conn[t].cur.request[1].Action) <=> outcome # NoOutcome
    /\ LET r == HandleRequestAsync(conn[t].cur.request[1], outcome) IN
       IF r = <<>>
       THEN LET dropped == [conn[t] EXCEPT
                               !.log = Append(@, LogEntry([conn[t].cur EXCEPT !.outcome = outcome],
                                                          FALSE))]
            IN
            /\ pc' = [pc EXCEPT ![t] = LeaveClient(dropped).pc]
            /\ conn' = [conn EXCEPT ![t] = LeaveClient(dropped).conn]
            /\ inFlightAtStop' = [inFlightAtStop EXCEPT
                                     ![t] = IF @ = "pending" THEN "dropped" ELSE @]
       ELSE /\ pc' = [pc EXCEPT ![t] = "write"]
            /\ conn' = [conn EXCEPT ![t].cur.outcome = outcome, ![t].cur.response = r]
            /\ UNCHANGED inFlightAtStop
    /\ UNCHANGED <<lifecycleVars, budgetVars, framerVars, toolVars, concurrencyVars>>

\* (mutation) the worker gives up the connection after a response with
\* success = false
FinishMessageCloseOnError(t, delivered, sawDisconnect) ==
    LET c == conn[t]
        response == [c.cur.response[1] EXCEPT !.Id = c.cur.requestId,
                                              !.ProcessingTimeMs = "elapsed"]
        d == [c EXCEPT !.log = Append(@, [message |-> c.cur.message,
                                          request |-> c.cur.request,
                                          outcome |-> c.cur.outcome,
                                          response |-> <<response>>,
                                          written |-> delivered]),
                       !.broken = @ \/ sawDisconnect,
                       !.cur = NoCur]
        n == IF response.Success THEN ContinueClient(d) ELSE LeaveClient(d)
    IN /\ pc' = [pc EXCEPT ![t] = n.pc]
       /\ conn' = [conn EXCEPT ![t] = n.conn]
       /\ UNCHANGED inFlightAtStop

\* (mutation) if in place of the inner while: after a message the worker
\* goes back to the head of the read loop whatever the builder holds
FinishMessageThenRead(t, delivered, sawDisconnect) ==
    LET c == conn[t]
        response == [c.cur.response[1] EXCEPT !.Id = c.cur.requestId,
                                              !.ProcessingTimeMs = "elapsed"]
        d == [c EXCEPT !.log = Append(@, [message |-> c.cur.message,
                                          request |-> c.cur.request,
                                          outcome |-> c.cur.outcome,
                                          response |-> <<response>>,
                                          written |-> delivered]),
                       !.broken = @ \/ sawDisconnect,
                       !.cur = NoCur]
    IN /\ pc' = [pc EXCEPT ![t] = IF cancellationRequested \/ d.broken
                                  THEN LeaveClient(d).pc ELSE "read"]
       /\ conn' = [conn EXCEPT ![t] = IF cancellationRequested \/ d.broken
                                      THEN LeaveClient(d).conn ELSE d]
       /\ UNCHANGED inFlightAtStop

\* ProcessMessageAsync from response.Id = requestId to the end of
\* SendResponseAsync: the response and a newline are written (delivered =
\* TRUE), or WriteAsync throws and the exception is caught and logged; then
\* the loops of HandleClientAsync go on
FinishMessage(t, delivered, sawDisconnect) ==
    LET c == conn[t]
        response == StampResponse(c.cur.response[1], c.cur.requestId)
        n == ContinueClient(
                 [c EXCEPT !.log = Append(@, LogEntry([c.cur EXCEPT !.response = <<response>>],
                                                      delivered)),
                           !.broken = @ \/ sawDisconnect,
                           !.cur = NoCur])
    IN /\ pc' = [pc EXCEPT ![t] = n.pc]
       /\ conn' = [conn EXCEPT ![t] = n.conn]
       /\ inFlightAtStop' = [inFlightAtStop EXCEPT
                                ![t] = IF @ = "pending"
                                       THEN (IF delivered THEN "written" ELSE "writeFailed")
                                       ELSE @]

\* SendResponseAsync: WriteAsync completes, or fails because the client is
\* gone.  WriteAsync is called without the cancellation token: while the
\* pipe takes no bytes it stays pending, cancelled or not.
SendResponseAsync(t) ==
    /\ pc[t] = "write"
    /\ ~conn[t].stalled \/ conn[t].peerClosed
    /\ FinishMessage(t, ~conn[t].peerClosed, conn[t].peerClosed)
    /\ UNCHANGED <<lifecycleVars, budgetVars, framerVars, toolVars, concurrencyVars>>

\* SendResponseAsync: WriteAsync throws for another reason
SendResponseFault(t) ==
    /\ pc[t] = "write"
    /\ ~conn[t].peerClosed
    /\ ~conn[t].stalled
    /\ faults < MaxFaults
    /\ faults' = faults + 1
    /\ FinishMessage(t, FALSE, FALSE)
    /\ UNCHANGED <<lifecycleVars, connects, sends, framerVars, toolVars, concurrencyVars>>

\* ------------------------------------------------------------------------
\* Clients
\* ------------------------------------------------------------------------
\* what a client writes in one write call: a message and its delimiter, an
\* empty frame, a message without its delimiter
ClientWrites ==
    { <<JPing1, ByteNL>>, <<JFrob7, ByteNL>>, <<JNoAction, ByteNL>>,
      <<JNullLiteral, ByteNL>>, <<JMalformed, ByteNL>>, <<ByteSP, ByteNL>>, <<JPing1>> }
\* all the bytes of a sequence of writes
RECURSIVE Flatten(_)
Flatten(writes) ==
    IF writes = <<>> THEN <<>> ELSE Head(writes) \o Flatten(Tail(writes))

\* a client that numbers its requests: "1", "2", "1", ...
NumberedRequest(c) ==
    IF Len(c.sent) % 2 = 0 THEN <<JPing1, ByteNL>> ELSE <<JPing2, ByteNL>>

ClientSend(t, bytes) ==
    /\ Serving(t)
    /\ ~conn[t].peerClosed
    /\ sends < MaxSends
    /\ sends' = sends + 1
    /\ conn' = [conn EXCEPT ![t].wire = @ \o bytes, ![t].sent = Append(@, bytes)]
    /\ UNCHANGED <<lifecycleVars, inFlightAtStop, pc, connects, faults, framerVars, toolVars, concurrencyVars>>

\* the client stops reading its end of the pipe
ClientStall(t) ==
    /\ Serving(t)
    /\ ~conn[t].peerClosed
    /\ ~conn[t].stalled
    /\ conn' = [conn EXCEPT ![t].stalled = TRUE]
    /\ UNCHANGED <<lifecycleVars, inFlightAtStop, pc, budgetVars, framerVars, toolVars, concurrencyVars>>

ClientClose(t) ==
    /\ Serving(t)
    /\ ~conn[t].peerClosed
    /\ conn' = [conn EXCEPT ![t].peerClosed = TRUE]
    /\ UNCHANGED <<lifecycleVars, inFlightAtStop, pc, budgetVars, framerVars, toolVars, concurrencyVars>>

\* ------------------------------------------------------------------------
\* Specification of the server: every acceptor, clients that send requests
\* ------------------------------------------------------------------------
Next ==
    \/ StartAsync
    \/ StopAsync
    \/ StopAsyncReturn
    \/ \E t \in Tasks :
        \/ TaskStart(t)
        \/ ConnectSession(t)
        \/ AcceptCancelled(t)
        \/ AcceptFault(t)
        \/ DelayElapsed(t)
        \/ DelayCancelled(t)
        \/ \E k \in 1..(2 * MaxSends) : ReadData(t, k)
        \/ ReadEnd(t)
        \/ ReadCancelled(t)
        \/ ReadFault(t)
        \/ \E outcome \in RequestOutcomes \cup {NoOutcome} : Dispatch(t, outcome)
        \/ SendResponseAsync(t)
        \/ SendResponseFault(t)
        \/ ClientSend(t, NumberedRequest(conn[t]))
        \/ ClientClose(t)

Spec == Init /\ [][Next]_vars

\* ------------------------------------------------------------------------
\* Specification of one acceptor: the first acceptor task of a started
\* server, with every kind of client write and every handler behaviour;
\* the server is not stopped
\* ------------------------------------------------------------------------
NextConn ==
    \/ StartAsync
    \/ \E t \in {1} :
        \/ TaskStart(t)
        \/ ConnectSession(t)
        \/ AcceptFault(t)
        \/ DelayElapsed(t)
        \/ \E k \in 1..(2 * MaxSends) : ReadData(t, k)
        \/ ReadEnd(t)
        \/ ReadFault(t)
        \/ \E outcome \in HandlerOutcomes \cup {NoOutcome} : Dispatch(t, outcome)
        \/ SendResponseAsync(t)
        \/ SendResponseFault(t)
        \/ \E bytes \in ClientWrites : ClientSend(t, bytes)
        \/ ClientClose(t)

SpecConn == Init /\ [][NextConn]_vars

\* ------------------------------------------------------------------------
\* Specification of pipelining: a started server, one client per acceptor,
\* each client sends RequestsPerConnection numbered requests and stays
\* connected; the handlers answer (they return a response or throw); no
\* transport fault, no stop
\* ------------------------------------------------------------------------
AnsweringOutcomes == { o \in RequestOutcomes : o.kind # "returnNull" }

\* a client writes its next request to the pipe
ClientRequest(t) ==
    /\ Serving(t)
    /\ Len(conn[t].sent) < RequestsPerConnection
    /\ conn' = [conn EXCEPT ![t].wire = @ \o NumberedRequest(conn[t]),
                            ![t].sent = Append(@, NumberedRequest(conn[t]))]
    /\ UNCHANGED <<lifecycleVars, inFlightAtStop, pc, budgetVars, framerVars, toolVars, concurrencyVars>>

NextPipeline ==
    \/ StartAsync
    \/ \E t \in Tasks :
        \/ TaskStart(t)
        \/ Connect(t)
        \/ \E k \in 1..(2 * RequestsPerConnection) : ReadData(t, k)
        \/ \E outcome \in AnsweringOutcomes : Dispatch(t, outcome)
        \/ SendResponseAsync(t)
        \/ ClientRequest(t)

SpecPipeline == Init /\ [][NextPipeline]_vars

\* ------------------------------------------------------------------------
\* Specification of draining: a server that is started and stopped, clients
\* that send numbered requests and may stop reading their responses;
\* handlers that answer; no transport fault
\* ------------------------------------------------------------------------
NextDrain ==
    \/ StartAsync
    \/ StopAsync
    \/ StopAsyncReturn
    \/ \E t \in Tasks :
        \/ TaskStart(t)
        \/ Connect(t)
        \/ AcceptCancelled(t)
        \/ \E k \in 1..(2 * MaxSends) : ReadData(t, k)
        \/ ReadCancelled(t)
        \/ \E outcome \in AnsweringOutcomes : Dispatch(t, outcome)
        \/ SendResponseAsync(t)
        \/ ClientSend(t, NumberedRequest(conn[t]))
        \/ ClientStall(t)

SpecDrain == Init /\ [][NextDrain]_vars

\* ------------------------------------------------------------------------
\* Specification of unfinished messages: clients that write a request with
\* or without its delimiter and may close; the server may be stopped and a
\* read may fail
\* ------------------------------------------------------------------------
TailWrites == { <<JPing1, ByteNL>>, <<JPing1>> }

NextTail ==
    \/ StartAsync
    \/ StopAsync
    \/ StopAsyncReturn
    \/ \E t \in Tasks :
        \/ TaskStart(t)
        \/ ConnectSession(t)
        \/ AcceptCancelled(t)
        \/ \E k \in 1..(2 * MaxSends) : ReadData(t, k)
        \/ ReadEnd(t)
        \/ ReadCancelled(t)
        \/ ReadFault(t)
        \/ \E outcome \in AnsweringOutcomes : Dispatch(t, outcome)
        \/ SendResponseAsync(t)
        \/ \E bytes \in TailWrites : ClientSend(t, bytes)
        \/ ClientClose(t)

SpecTail == Init /\ [][NextTail]_vars

\* ------------------------------------------------------------------------
\* Specification of faults: a started server that is not stopped, up to
\* MaxConnects clients, transport faults, handlers that throw or return null
\* ------------------------------------------------------------------------
NextFaults ==
    \/ StartAsync
    \/ \E t \in Tasks :
        \/ TaskStart(t)
        \/ Connect(t)
        \/ AcceptFault(t)
        \/ DelayElapsed(t)
        \/ \E k \in 1..(2 * MaxSends) : ReadData(t, k)
        \/ ReadEnd(t)
        \/ ReadFault(t)
        \/ \E outcome \in RequestOutcomes \cup {NoOutcome} : Dispatch(t, outcome)
        \/ SendResponseAsync(t)
        \/ SendResponseFault(t)
        \/ ClientSend(t, NumberedRequest(conn[t]))
        \/ ClientClose(t)

SpecFaults == Init /\ [][NextFaults]_vars

\* ------------------------------------------------------------------------
\* Specification of concurrent callers: two threads call StartAsync and
\* StopAsync without waiting for each other; a call is observed where
\* another thread can run in between
\* ------------------------------------------------------------------------
MaxCalls == 2

\* StartAsync, the read of _isRunning: return at once, or go on to the write
StartAsyncCheck(c) ==
    /\ callers[c].at = "idle"
    /\ callers[c].calls < MaxCalls
    /\ callers' = [callers EXCEPT ![c] =
                      IF isRunning
                      THEN [@ EXCEPT !.calls = @ + 1, !.last = "startNoop"]
                      ELSE [@ EXCEPT !.at = "startChecked"]]
    /\ UNCHANGED <<lifecycleVars, inFlightAtStop, pc, conn, budgetVars, framerVars, toolVars, xref>>

\* StartAsync from _isRunning = true to its return: AcceptConnectionsAsync
\* runs up to its await in the caller's thread
StartAsyncLaunch(c) ==
    /\ callers[c].at = "startChecked"
    /\ launches < MaxStarts
    /\ isRunning' = TRUE
    /\ AcceptConnectionsAsync
    /\ launches' = launches + 1
    /\ lastOp' = "start"
    /\ callers' = [callers EXCEPT ![c] = [@ EXCEPT !.at = "idle", !.calls = @ + 1,
                                                    !.last = "start"]]
    /\ UNCHANGED <<cancellationRequested, ctl, stopSnapshot, inFlightAtStop,
                   conn, budgetVars, framerVars, toolVars, xref>>

\* StopAsync up to its await, or to its return when _isRunning is false
StopAsyncEnter(c) ==
    /\ callers[c].at = "idle"
    /\ callers[c].calls < MaxCalls
    /\ IF ~isRunning
       THEN /\ callers' = [callers EXCEPT ![c] = [@ EXCEPT !.calls = @ + 1,
                                                           !.last = "stopNoop"]]
            /\ UNCHANGED <<isRunning, cancellationRequested>>
       ELSE /\ isRunning' = FALSE
            /\ cancellationRequested' = TRUE
            /\ callers' = [callers EXCEPT ![c] = [@ EXCEPT !.at = "stopWait",
                                                           !.snapshot = activePipeHandlers]]
    /\ UNCHANGED <<activePipeHandlers, taskCount, launches, ctl, stopSnapshot, lastOp,
                   inFlightAtStop, pc, conn, budgetVars, framerVars, toolVars, xref>>

\* StopAsync from the completion of Task.WhenAll to its return
StopAsyncLeave(c) ==
    /\ callers[c].at = "stopWait"
    /\ WhenAllDone(callers[c].snapshot)
    /\ activePipeHandlers' = <<>>
    /\ lastOp' = "stop"
    /\ callers' = [callers EXCEPT ![c] = [@ EXCEPT !.at = "idle", !.snapshot = <<>>,
                                                    !.calls = @ + 1, !.last = "stop"]]
    /\ UNCHANGED <<isRunning, cancellationRequested, taskCount, launches, ctl, stopSnapshot,
                   inFlightAtStop, pc, conn, budgetVars, framerVars, toolVars, xref>>

NextCallers ==
    \/ \E c \in Callers :
        \/ StartAsyncCheck(c)
        \/ StartAsyncLaunch(c)
        \/ StopAsyncEnter(c)
        \/ StopAsyncLeave(c)
    \/ \E t \in Tasks :
        \/ TaskStart(t)
        \/ Connect(t)
        \/ AcceptCancelled(t)
        \/ ReadCancelled(t)

SpecCallers == Init /\ [][NextCallers]_vars

\* ------------------------------------------------------------------------
\* Specification of CrossReferenceHandler under concurrent requests: two
\* threads are in HandleRequestAsync at the same time; a thread is observed
\* where it reads _isInitialized, where it waits for _initLock, and around
\* the two calls EnsureInitialized makes inside the lock
\* ------------------------------------------------------------------------
MaxXRefRequests == 2

\* what DiscoverXRefDatabase can return: no database, or the connection
\* string of the database it chose, which depends on what is on LocalDB at
\* the time
Databases == {"XRef_A", "XRef_B"}

\* EnsureInitialized returns true to thread r: HandleRequestAsync goes on to
\* the query
EnsureInitializedTrue(r) ==
    [xref EXCEPT !.at[r] = "query", !.returnedTrue = TRUE]

\* EnsureInitialized returns false to thread r: HandleRequestAsync returns
\* the error "Cross-reference database not available"
EnsureInitializedFalse(r) ==
    [xref EXCEPT !.at[r] = "idle", !.last[r] = <<"not available">>, !.failed = TRUE]

\* HandleRequestAsync up to the lock statement: a request that fails
\* ValidateRequest is answered at once; otherwise EnsureInitialized reads
\* _isInitialized and returns true, or goes to lock (_initLock)
XRefHandleRequest(r, valid) ==
    /\ xref.at[r] = "idle"
    /\ xref.requests[r] < MaxXRefRequests
    /\ valid \in BOOLEAN
    /\ LET begun == [xref EXCEPT !.requests[r] = @ + 1] IN
       xref' = IF ~valid THEN [begun EXCEPT !.last[r] = <<"invalid">>]
               ELSE IF xref.isInitialized
               THEN [begun EXCEPT !.at[r] = "query", !.returnedTrue = TRUE]
               ELSE [begun EXCEPT !.at[r] = "lockWait"]
    /\ UNCHANGED <<lifecycleVars, inFlightAtStop, pc, conn, budgetVars, framerVars,
                   toolVars, callers>>

\* (mutation) no second read of _isInitialized inside the lock
EnterInitLockUnchecked(r) ==
    /\ xref.at[r] = "lockWait"
    /\ xref.initLock = 0
    /\ xref' = [xref EXCEPT !.initLock = r, !.at[r] = "discovering"]
    /\ UNCHANGED <<lifecycleVars, inFlightAtStop, pc, conn, budgetVars, framerVars,
                   toolVars, callers>>

\* the lock is taken when no thread holds it; _isInitialized is read again:
\* if it is set the lock is released and true is returned, otherwise
\* DiscoverXRefDatabase is called
EnterInitLock(r) ==
    /\ xref.at[r] = "lockWait"
    /\ xref.initLock = 0
    /\ xref' = IF xref.isInitialized
               THEN EnsureInitializedTrue(r)
               ELSE [xref EXCEPT !.initLock = r, !.at[r] = "discovering"]
    /\ UNCHANGED <<lifecycleVars, inFlightAtStop, pc, conn, budgetVars, framerVars,
                   toolVars, callers>>

\* DiscoverXRefDatabase returns: its result is assigned to
\* _connectionString; an empty result returns false; an exception returns
\* false from the catch block with _connectionString as it was; the lock is
\* released on both ways out
XRefDiscovered(r, found) ==
    /\ xref.at[r] = "discovering"
    /\ found \in Databases \cup {"", "threw"}
    /\ xref' = IF found = "threw"
               THEN [EnsureInitializedFalse(r) EXCEPT !.initLock = 0]
               ELSE IF found = ""
               THEN [EnsureInitializedFalse(r) EXCEPT !.initLock = 0,
                                                      !.connectionString = ""]
               ELSE [xref EXCEPT !.at[r] = "opening", !.connectionString = found]
    /\ UNCHANGED <<lifecycleVars, inFlightAtStop, pc, conn, budgetVars, framerVars,
                   toolVars, callers>>

\* conn.Open() returns: _isInitialized is set and true is returned, or the
\* exception of Open is caught and false is returned; the lock is released
XRefOpened(r, opened) ==
    /\ xref.at[r] = "opening"
    /\ opened \in BOOLEAN
    /\ xref' = IF opened
               THEN [EnsureInitializedTrue(r) EXCEPT !.initLock = 0,
                                                     !.isInitialized = TRUE]
               ELSE [EnsureInitializedFalse(r) EXCEPT !.initLock = 0]
    /\ UNCHANGED <<lifecycleVars, inFlightAtStop, pc, conn, budgetVars, framerVars,
                   toolVars, callers>>

\* the rest of HandleRequestAsync: the query runs on a connection made from
\* _connectionString, and the request is answered
XRefQuery(r) ==
    /\ xref.at[r] = "query"
    /\ xref' = [xref EXCEPT !.at[r] = "idle",
                            !.last[r] = <<"queried", xref.connectionString>>]
    /\ UNCHANGED <<lifecycleVars, inFlightAtStop, pc, conn, budgetVars, framerVars,
                   toolVars, callers>>

NextXRef ==
    \E r \in Requests :
        \/ \E valid \in BOOLEAN : XRefHandleRequest(r, valid)
        \/ EnterInitLock(r)
        \/ \E found \in Databases \cup {"", "threw"} : XRefDiscovered(r, found)
        \/ \E opened \in BOOLEAN : XRefOpened(r, opened)
        \/ XRefQuery(r)

SpecXRef == Init /\ [][NextXRef]_vars

\* ------------------------------------------------------------------------
\* Specification of parsing: one client of a started server writes frames
\* of every kind, one frame in each write: texts that are not a JSON
\* object, an object without action, empty frames, a good request; the
\* handlers answer; no transport fault, no stop
\* ------------------------------------------------------------------------
ParseWrites ==
    { <<JMalformed, ByteNL>>, <<JNullLiteral, ByteNL>>, <<JNumber, ByteNL>>,
      <<JNoAction, ByteNL>>, <<ByteNL>>, <<ByteSP, ByteSP, ByteNL>>,
      <<JPing1, ByteNL>> }

\* the text of the frame a write of one frame carries
FrameText(bytes) == Trim(UTF8GetString(SubSeq(bytes, 1, Len(bytes) - 1)))

NextParse ==
    \/ StartAsync
    \/ \E t \in {1} :
        \/ TaskStart(t)
        \/ Connect(t)
        \/ \E k \in 1..(3 * MaxSends) : ReadData(t, k)
        \/ \E outcome \in AnsweringOutcomes \cup {NoOutcome} : Dispatch(t, outcome)
        \/ SendResponseAsync(t)
        \/ \E bytes \in ParseWrites : ClientSend(t, bytes)

SpecParse == Init /\ [][NextParse]_vars

\* ------------------------------------------------------------------------
\* Specification of the framer: the read loop of HandleClientAsync run on
\* one byte sequence that arrives in reads of any sizes
\* ------------------------------------------------------------------------
FramerBytes == {ByteNL, ByteSP, ByteA, ByteLead, ByteCont}
FramerInputs == UNION { [1..n -> FramerBytes] : n \in 1..MaxBytes }

InitFramer ==
    /\ ServerInit
    /\ fInput \in FramerInputs
    /\ fRest = fInput
    /\ fBuilder = <<>>
    /\ fMessages = <<>>
    /\ fReads = <<>>
    /\ ToolIdle
    /\ CallersIdle

\* ReadAsync returns the next k bytes; they are decoded and appended, and
\* every complete message is extracted
FramerRead(k) ==
    /\ k \in 1..Len(fRest)
    /\ LET r == ReadAndFrame(fBuilder, SubSeq(fRest, 1, k)) IN
       /\ fBuilder' = r.builder
       /\ fMessages' = fMessages \o r.messages
    /\ fRest' = SubSeq(fRest, k + 1, Len(fRest))
    /\ fReads' = Append(fReads, k)
    /\ UNCHANGED <<fInput, lifecycleVars, inFlightAtStop, pc, conn, budgetVars, toolVars, concurrencyVars>>

NextFramer == \E k \in 1..MaxBytes : FramerRead(k)

SpecFramer == InitFramer /\ [][NextFramer]_vars

\* ------------------------------------------------------------------------
\* Specification of the tool execute_object_modification: one call with an
\* array of modifications for one object, each sent to the service in turn
\* ------------------------------------------------------------------------
MaxBatch == 2

ItemNames == {"find", "validate"}
MethodNames == {"RemoveMethod", "AddMethod"}
Modifications == [methodName : MethodNames, Name : ItemNames]
\* the arrays the schema accepts: at least one modification
Batches == UNION { [1..n -> Modifications] : n \in 1..MaxBatch }

\* What one executeObjectModification request to the service can come to,
\* as the result the tool sees and the items of the object afterwards.
\* The service answers with success after it has applied the modification;
\* it answers with an error, or the call throws, and the object is as
\* before.  RemoveMethod needs the item, AddMethod only creates new items.
ServiceOutcomes(modification, object) ==
    LET applicable == IF modification.methodName = "RemoveMethod"
                      THEN modification.Name \in object
                      ELSE modification.Name \notin object
        applied == IF modification.methodName = "RemoveMethod"
                   THEN object \ {modification.Name}
                   ELSE object \cup {modification.Name}
    IN { [result |-> r, object |-> object] : r \in {"error", "threw"} }
       \cup (IF applicable THEN {[result |-> "success", object |-> applied]} ELSE {})

\* the entry the loop pushes to operationResults
OperationResult(modification, result) ==
    [methodName |-> modification.methodName, parameters |-> modification.Name,
     success |-> (result = "success")]

InitBatch ==
    /\ ServerInit
    /\ fInput = <<>>
    /\ fRest = <<>>
    /\ fBuilder = <<>>
    /\ fMessages = <<>>
    /\ fReads = <<>>
    /\ metadata \in SUBSET ItemNames
    /\ batch = NoBatch
    /\ form = NoForm
    /\ CallersIdle

\* executeObjectModification up to the loop: the arguments pass the schema
\* and the client is connected
ExecuteObjectModificationBegin(modifications) ==
    /\ batch.state = "idle"
    /\ modifications \in Batches
    /\ batch' = [NoBatch EXCEPT !.state = "running", !.modifications = modifications,
                                !.before = metadata]
    /\ UNCHANGED <<metadata, lifecycleVars, inFlightAtStop, pc, conn, budgetVars, framerVars,
                   form, concurrencyVars>>

\* (mutation) the loop is left at the first modification that fails
ExecuteModificationStopOnFailure(outcome) ==
    /\ batch.state = "running"
    /\ batch.i < Len(batch.modifications)
    /\ LET modification == batch.modifications[batch.i + 1] IN
       /\ outcome \in ServiceOutcomes(modification, metadata)
       /\ metadata' = outcome.object
       /\ batch' = [batch EXCEPT
                       !.operationResults = Append(@, OperationResult(modification,
                                                                       outcome.result)),
                       !.successCount = IF outcome.result = "success" THEN @ + 1 ELSE @,
                       !.failureCount = IF outcome.result = "success" THEN @ ELSE @ + 1,
                       !.i = IF outcome.result = "success" THEN @ + 1
                             ELSE Len(batch.modifications)]
    /\ UNCHANGED <<lifecycleVars, inFlightAtStop, pc, conn, budgetVars, framerVars,
                   form, concurrencyVars>>

\* one turn of the loop: the modification is sent, its result is recorded
\* and counted, and the loop goes on with the next one whatever the result
ExecuteModification(outcome) ==
    /\ batch.state = "running"
    /\ batch.i < Len(batch.modifications)
    /\ LET modification == batch.modifications[batch.i + 1] IN
       /\ outcome \in ServiceOutcomes(modification, metadata)
       /\ metadata' = outcome.object
       /\ batch' = [batch EXCEPT
                       !.operationResults = Append(@, OperationResult(modification,
                                                                       outcome.result)),
                       !.successCount = IF outcome.result = "success" THEN @ + 1 ELSE @,
                       !.failureCount = IF outcome.result = "success" THEN @ ELSE @ + 1,
                       !.i = @ + 1]
    /\ UNCHANGED <<lifecycleVars, inFlightAtStop, pc, conn, budgetVars, framerVars,
                   form, concurrencyVars>>

\* after the loop: disconnect and return the formatted results
ExecuteObjectModificationReturn ==
    /\ batch.state = "running"
    /\ batch.i = Len(batch.modifications)
    /\ batch' = [batch EXCEPT !.state = "returned"]
    /\ UNCHANGED <<metadata, lifecycleVars, inFlightAtStop, pc, conn, budgetVars, framerVars,
                   form, concurrencyVars>>

NextBatch ==
    \/ \E modifications \in Batches : ExecuteObjectModificationBegin(modifications)
    \/ \E outcome \in [result : {"success", "error", "threw"}, object : SUBSET ItemNames] :
           ExecuteModification(outcome)
    \/ ExecuteObjectModificationReturn

SpecBatch == InitBatch /\ [][NextBatch]_vars

\* ------------------------------------------------------------------------
\* Specification of the tool create_form: calls one after another, each
\* with its own D365ServiceClient
\* ------------------------------------------------------------------------
MaxFormCalls == 2

\* the arguments of a call: mode as sent, formName and patternName with ""
\* for an absent or empty string
FormArguments == [mode : {"create", "list_patterns", "delete"},
                  formName : {"", "MyForm"},
                  patternName : {"", "ListPage"}]

\* the parameters of the create_form request, with the defaults of the tool
FormParams(params) ==
    [formName |-> params.formName,
     patternName |-> IF params.patternName = "" THEN "SimpleListDetails"
                     ELSE params.patternName]

\* createForm up to the end of client.connect(): arguments the schema
\* rejects are answered at once; a connect that throws is answered by the
\* catch block; otherwise the client is connected
CreateFormConnect(args, connectResult) ==
    /\ form.state \in {"idle", "returned"}
    /\ form.calls < MaxFormCalls
    /\ args \in FormArguments
    /\ connectResult \in {"connected", "threw"}
    /\ form' = IF args.mode \notin {"create", "list_patterns"}
               THEN [form EXCEPT !.state = "returned", !.params = args, !.request = <<>>,
                                 !.response = "none", !.result = "invalid parameters",
                                 !.connected = FALSE, !.calls = @ + 1]
               ELSE IF connectResult = "threw"
               THEN [form EXCEPT !.state = "returned", !.params = args, !.request = <<>>,
                                 !.response = "none", !.result = "failed",
                                 !.connected = FALSE, !.calls = @ + 1]
               ELSE [form EXCEPT !.state = "connected", !.params = args, !.request = <<>>,
                                 !.response = "none", !.result = "none",
                                 !.connected = TRUE, !.open = @ + 1, !.calls = @ + 1]
    /\ UNCHANGED <<metadata, batch, lifecycleVars, inFlightAtStop, pc, conn, budgetVars,
                   framerVars, concurrencyVars>>

\* from client.connect() to the end of sendRequest: mode "create" without a
\* formName returns from inside the try block; a sendRequest that throws
\* goes to the catch block, which returns; otherwise the response is kept
CreateFormSendRequest(response) ==
    /\ form.state = "connected"
    /\ response \in {"success", "error", "threw"}
    /\ form' = IF form.params.mode = "create" /\ form.params.formName = ""
               THEN [form EXCEPT !.state = "returned", !.result = "formName is required"]
               ELSE LET request == IF form.params.mode = "list_patterns"
                                   THEN <<"discover_patterns">>
                                   ELSE <<"create_form", FormParams(form.params)>>
                    IN IF response = "threw"
                       THEN [form EXCEPT !.state = "returned", !.request = request,
                                         !.result = "failed"]
                       ELSE [form EXCEPT !.state = "answered", !.request = request,
                                         !.response = response]
    /\ UNCHANGED <<metadata, batch, lifecycleVars, inFlightAtStop, pc, conn, budgetVars,
                   framerVars, concurrencyVars>>

\* after sendRequest: client.disconnect(), then the formatted response
CreateFormDisconnect ==
    /\ form.state = "answered"
    /\ form' = [form EXCEPT !.state = "returned", !.connected = FALSE, !.open = @ - 1,
                            !.result = IF form.params.mode = "list_patterns"
                                       THEN "pattern list"
                                       ELSE "form creation"]
    /\ UNCHANGED <<metadata, batch, lifecycleVars, inFlightAtStop, pc, conn, budgetVars,
                   framerVars, concurrencyVars>>

NextForm ==
    \/ \E args \in FormArguments, connectResult \in {"connected", "threw"} :
           CreateFormConnect(args, connectResult)
    \/ \E response \in {"success", "error", "threw"} : CreateFormSendRequest(response)
    \/ CreateFormDisconnect

SpecForm == Init /\ [][NextForm]_vars

\* ------------------------------------------------------------------------
\* Properties
\* ------------------------------------------------------------------------
\* C1: once StopAsync has returned, no acceptor task is waiting for a client,
\* reading, dispatching or writing: every task that was tracked when stop was
\* called has completed (ran to completion or canceled), and the list of
\* tracked tasks is empty when stop returns.
C1_StopDrainsEveryTask ==
    /\ (ctl = "idle" /\ cancellationRequested) =>
           \A t \in Tasks : pc[t] \in CompletedStates \cup {"none"}
    /\ lastOp = "stop" => activePipeHandlers = <<>>

\* a stop has returned on a server whose acceptors had served clients
C1_Witness ==
    /\ lastOp = "stop"
    /\ sends > 0
    /\ \A t \in 1..NumAcceptors : Completed(t)
    /\ \E t \in 1..NumAcceptors : conn[t].log # <<>>

\* C2: with one client on each acceptor, each sending its numbered requests
\* to handlers that answer, under every interleaving of reads, handler
\* completions and writes: the responses written on a connection are the
\* responses to that connection's requests, in the order the requests were
\* sent, each with the id of its request; once the connection has nothing
\* left to read or process, every request sent has its response.
C2_ResponsesInRequestOrder ==
    \A t \in Tasks :
        Serving(t) =>
            LET c == conn[t] IN
            /\ Len(c.log) <= Len(c.sent)
            /\ \A i \in 1..Len(c.log) :
                  /\ c.log[i].written
                  /\ c.log[i].message = <<c.sent[i][1]>>
                  /\ c.log[i].request = <<RequestOf(c.sent[i][1])>>
                  /\ c.log[i].response # <<>>
                  /\ c.log[i].response[1].Id = RequestOf(c.sent[i][1]).Id
            /\ (pc[t] = "read" /\ c.wire = <<>>) => Len(c.log) = Len(c.sent)

\* every acceptor has a client whose requests have all been answered
C2_Witness ==
    \A t \in 1..NumAcceptors :
        /\ Len(conn[t].sent) = RequestsPerConnection
        /\ Len(conn[t].log) = RequestsPerConnection
        /\ conn[t].log[1].response[1].Id = "1"
        /\ conn[t].log[RequestsPerConnection].written

\* C3: the messages extracted from a byte sequence do not depend on how the
\* sequence is divided into reads, a division inside a multi-byte character
\* included: after the last read they are the messages of the sequence read
\* in one piece.
C3_SplitInvariance ==
    fRest = <<>> => fMessages = ReadAndFrame(<<>>, fInput).messages

\* C4: the id of every response to a parsed request is the id of the
\* request, whatever id the handler put into its response, and also when the
\* handler threw or the action has no handler.
C4_ResponseIdIsRequestId ==
    \A t \in Tasks :
        /\ \A i \in 1..Len(conn[t].log) :
              LET e == conn[t].log[i] IN
              (e.request # <<>> /\ e.response # <<>>) =>
                  e.response[1].Id = e.request[1].Id
        /\ (pc[t] = "write" /\ conn[t].cur.request # <<>>) =>
               StampResponse(conn[t].cur.response[1], conn[t].cur.requestId).Id
                   = conn[t].cur.request[1].Id

\* a handler returned a response with an id of its own and the response went
\* out with the id of the request
C4_Witness ==
    \E i \in 1..Len(conn[1].log) :
        LET e == conn[1].log[i] IN
        /\ e.outcome.kind = "return"
        /\ e.outcome.response.Id = "h9"
        /\ e.written
        /\ e.response[1].Id = "1"

C6_StartIsIdempotent ==
    isRunning =>
        /\ Len(activePipeHandlers) = NumAcceptors
        /\ taskCount = NumAcceptors * launches

\* StartAsync was called on a running server that was serving a client
C6_Witness ==
    /\ lastOp = "startNoop"
    /\ isRunning
    /\ Len(activePipeHandlers) = NumAcceptors
    /\ \E t \in Tasks : Serving(t)

\* C7: StopAsync on a server that is not running returns at once and leaves
\* the state as it was: the token is not cancelled, no task is touched.
C7_StopWhenNotRunningIsNoop ==
    [][(lastOp' = "stopNoop" /\ lastOp # "stopNoop") =>
          /\ ~isRunning
          /\ ctl' = "idle"
          /\ UNCHANGED <<isRunning, cancellationRequested, activePipeHandlers,
                         taskCount, launches, stopSnapshot, inFlightAtStop, pc, conn>>]_vars

\* StopAsync was called on a server that was never started
C7_Witness ==
    /\ lastOp = "stopNoop"
    /\ launches = 0
    /\ ~cancellationRequested

\* C8: a request whose action has no handler gets a response with the id of
\* the request, success = false and the error "Unknown action: <action>",
\* and after that response is written the worker goes on serving the
\* connection.
C8_UnknownAction ==
    /\ [](\A t \in Tasks :
            /\ \A i \in 1..Len(conn[t].log) :
                  LET e == conn[t].log[i] IN
                  (e.request # <<>> /\ e.request[1].Action \notin Registry \cup {Null}) =>
                      e.response =
                          <<[Id |-> e.request[1].Id, Success |-> FALSE, Data |-> Null,
                             Error |-> "Unknown action: " \o e.request[1].Action,
                             ProcessingTimeMs |-> "elapsed"]>>
            /\ (pc[t] = "write" /\ conn[t].cur.request # <<>>
                  /\ conn[t].cur.request[1].Action \notin Registry \cup {Null}) =>
                   /\ conn[t].cur.response # <<>>
                   /\ ~conn[t].cur.response[1].Success
                   /\ conn[t].cur.response[1].Error
                          = "Unknown action: " \o conn[t].cur.request[1].Action)
    /\ [][\A t \in Tasks :
            (/\ pc[t] = "write"
             /\ conn[t].cur.request # <<>>
             /\ conn[t].cur.request[1].Action \notin Registry \cup {Null}
             /\ ~conn[t].peerClosed
             /\ faults' = faults) => pc'[t] \in ServingStates]_vars

\* the response to an unknown action was written and the next request on the
\* same connection was answered too
C8_Witness ==
    /\ Len(conn[1].log) = 2
    /\ conn[1].log[1].message = <<JFrob7>>
    /\ conn[1].log[1].written
    /\ conn[1].log[1].response[1].Error = "Unknown action: frobnicate"
    /\ conn[1].log[2].written
    /\ conn[1].log[2].response[1].Success

\* C9: when a handler throws, whatever the exception, the request gets one
\* response with success = false; the exception does not reach the read loop
\* of the worker: the worker writes the response and goes on serving.
C9_HandlerExceptionIsAnswered ==
    /\ [](\A t \in Tasks :
            /\ Len(conn[t].log) <= Len(conn[t].sent)
            /\ \A i \in 1..Len(conn[t].log) :
                  LET e == conn[t].log[i] IN
                  e.outcome.kind = "throw" =>
                      /\ e.response # <<>>
                      /\ ~e.response[1].Success
                      /\ e.response[1].Error # Null
            /\ (pc[t] = "write" /\ conn[t].cur.outcome.kind = "throw") =>
                   /\ conn[t].cur.response # <<>>
                   /\ ~conn[t].cur.response[1].Success)
    /\ [][\A t \in Tasks :
            (/\ pc[t] = "write"
             /\ conn[t].cur.outcome.kind = "throw"
             /\ ~conn[t].peerClosed
             /\ faults' = faults) =>
                /\ pc'[t] \in ServingStates
                /\ Len(conn'[t].log) \in {Len(conn[t].log), Len(conn[t].log) + 1}]_vars

\* a handler threw, the error response was written, and the worker answered
\* the next request of the connection
C9_Witness ==
    /\ Len(conn[1].log) = 2
    /\ conn[1].log[1].outcome.kind = "throw"
    /\ conn[1].log[1].written
    /\ ~conn[1].log[1].response[1].Success
    /\ conn[1].log[2].written

C11_UnparseableMessage ==
    \A t \in Tasks :
        /\ \A i \in 1..Len(conn[t].log) :
              LET e == conn[t].log[i] IN
              (Len(e.message) = 1 /\ e.message[1] \in NonObjectTexts) =>
                  /\ e.request = <<>>
                  /\ e.outcome = NoOutcome
                  /\ e.response # <<>>
                  /\ e.response[1].Id = Null
                  /\ ~e.response[1].Success
                  /\ e.response[1].Error \in
                         {"JSON parsing error: Unexpected character",
                          "JSON parsing error: Error converting value",
                          "Invalid JSON request - deserialized to null"}
        /\ pc[t] = "dispatch" =>
               (Len(conn[t].cur.message) = 1 /\ conn[t].cur.message[1] \in ObjectTexts)
        /\ (pc[t] = "write" /\ Len(conn[t].cur.message) = 1
              /\ conn[t].cur.message[1] \in NonObjectTexts) =>
               /\ conn[t].cur.request = <<>>
               /\ conn[t].cur.outcome = NoOutcome

\* a JSON number and the literal null have been answered on one connection
C11_Witness ==
    /\ Len(conn[1].log) = 2
    /\ conn[1].log[1].message = <<JNumber>>
    /\ conn[1].log[1].response[1].Error = "JSON parsing error: Error converting value"
    /\ conn[1].log[2].message = <<JNullLiteral>>
    /\ conn[1].log[2].response[1].Error = "Invalid JSON request - deserialized to null"
    /\ \A i \in 1..2 : conn[1].log[i].written /\ conn[1].log[i].response[1].Id = Null

\* C12: a message that is a JSON object with an id and no action is treated
\* as a parse failure: it is not dispatched, and its response has success =
\* false and id = null, not the id of the message.
C12_MissingActionIsParseFailure ==
    \A t \in Tasks :
        \A i \in 1..Len(conn[t].log) :
            LET e == conn[t].log[i] IN
            e.message = <<JNoAction>> =>
                /\ e.response # <<>>
                /\ ~e.response[1].Success
                /\ e.response[1].Id = Null

\* C18: every frame that is empty after trimming gets one response with
\* success = false and id = null; no frame is passed over: the messages
\* processed on a connection are, one for one and in order, the frames the
\* client wrote, and once nothing is left to read every frame has its
\* response.
C18_EmptyFrameIsAnswered ==
    \A t \in Tasks :
        Serving(t) =>
            LET c == conn[t] IN
            /\ Len(c.log) <= Len(c.sent)
            /\ \A i \in 1..Len(c.log) :
                  /\ c.log[i].message = FrameText(c.sent[i])
                  /\ c.log[i].message = <<>> =>
                        c.log[i].response =
                            <<[Id |-> Null, Success |-> FALSE, Data |-> Null,
                               Error |-> "Empty message received",
                               ProcessingTimeMs |-> "elapsed"]>>
            /\ (pc[t] = "read" /\ c.wire = <<>>) => Len(c.log) = Len(c.sent)

\* a bare newline and a whitespace-only line were each answered
C18_Witness ==
    /\ Len(conn[1].log) = 2
    /\ conn[1].sent = << <<ByteNL>>, <<ByteSP, ByteSP, ByteNL>> >>
    /\ \A i \in 1..2 :
          /\ conn[1].log[i].message = <<>>
          /\ conn[1].log[i].written
          /\ ~conn[1].log[i].response[1].Success

\* C13: whenever _isRunning is set, exactly _maxConnections acceptor tasks
\* are alive (scheduled, waiting for a client, pausing or serving one), after
\* the first StartAsync and after a StartAsync that follows a StopAsync.
C13_RunningHasLiveAcceptors ==
    isRunning =>
        Cardinality({t \in Tasks :
                        pc[t] \in {"scheduled", "accept", "delay"} \cup ServingStates})
            = NumAcceptors

C15_OneMessageAtATime ==
    \A t \in Tasks :
        Serving(t) =>
            LET c == conn[t]
                buffered == Len(SelectSeq(c.messageBuilder, LAMBDA x : x = NL))
                unread == Len(SelectSeq(c.wire, LAMBDA x : x = ByteNL))
                inDispatcher == IF pc[t] \in {"dispatch", "write"} THEN 1 ELSE 0
            IN /\ unread + buffered + inDispatcher + Len(c.log) = Len(c.sent)
               /\ \A i \in 1..Len(c.log) : c.log[i].written /\ c.log[i].response # <<>>
               /\ pc[t] \in {"dispatch", "write"} =>
                      c.cur.message = FrameText(c.sent[Len(c.log) + 1])
               /\ pc[t] = "read" => c.cur = NoCur

\* the second request of a connection is in its handler, the response to the
\* first is written, on both connections at once
C15_Witness ==
    \A t \in 1..NumAcceptors :
        /\ pc[t] = "dispatch"
        /\ Len(conn[t].log) = 1
        /\ conn[t].log[1].written
        /\ conn[t].cur.message = <<JPing2>>

\* C16: a message whose delimiter arrives in a later read than its first
\* bytes is extracted once, whole, when the delimiter has arrived: after any
\* reads the messages extracted are as many as the delimiters read, the
\* builder holds what follows the last delimiter and no delimiter, and (for
\* single-byte text) messages and builder are those of the bytes read so far
\* taken in one piece.
C16_PartialMessageWaitsForDelimiter ==
    LET consumed == SubSeq(fInput, 1, Len(fInput) - Len(fRest))
        whole == ReadAndFrame(<<>>, consumed)
    IN /\ Len(fMessages) = Len(SelectSeq(consumed, LAMBDA b : b = ByteNL))
       /\ IndexOf(fBuilder, NL) = -1
       /\ fBuilder = <<>> <=> (consumed = <<>> \/ consumed[Len(consumed)] = ByteNL)
       /\ (\A i \in 1..Len(fInput) : fInput[i] \notin {ByteLead, ByteCont}) =>
              (fMessages = whole.messages /\ fBuilder = whole.builder)

\* the text "aa" arrived in a first read and its delimiter in a second; the
\* message was extracted after the second
C16_Witness ==
    /\ fInput = <<ByteA, ByteA, ByteNL>>
    /\ fReads = <<2, 1>>
    /\ fMessages = << <<"a", "a">> >>
    /\ fBuilder = <<>>

\* C17: when a read delivers several complete messages the worker processes
\* them all, in arrival order, before it reads again: the worker is never in
\* ReadAsync while the builder holds a newline.
C17_NoReadWhileMessageBuffered ==
    \A t \in Tasks :
        /\ pc[t] = "read" => IndexOf(conn[t].messageBuilder, NL) = -1
        /\ Serving(t) =>
               \A i \in 1..Len(conn[t].log) :
                   conn[t].log[i].message = FrameText(conn[t].sent[i])

\* a read left two complete requests in the builder: the first is with the
\* dispatcher and the second waits in the builder, on a worker that is not
\* reading
C17_Witness ==
    \E t \in Tasks :
        /\ pc[t] \in {"dispatch", "write"}
        /\ conn[t].cur.message = <<JPing1>>
        /\ conn[t].messageBuilder = <<JPing2, NL>>
        /\ conn[t].wire = <<>>
        /\ conn[t].log = <<>>

\* C19: a fault on one message (an empty frame, malformed JSON, an unknown
\* action, a handler exception) does not close the connection: when the
\* failure response has been written the worker is still serving the
\* connection, and a request that follows a failure is answered as its
\* handler answered it, with the id of the request.
C19_FailureKeepsConnectionOpen ==
    /\ [](\A t \in Tasks :
            \A i \in 2..Len(conn[t].log) :
                LET e == conn[t].log[i] IN
                (~conn[t].log[i - 1].response[1].Success /\ e.outcome.kind = "return") =>
                    e.response = <<[e.outcome.response EXCEPT
                                       !.Id = e.request[1].Id,
                                       !.ProcessingTimeMs = "elapsed"]>>)
    /\ [][\A t \in Tasks :
            (/\ pc[t] = "write"
             /\ ~conn[t].cur.response[1].Success
             /\ conn[t].cur.outcome.kind # "return"
             /\ ~conn[t].peerClosed
             /\ faults' = faults
             /\ conn'[t].log # conn[t].log) =>
                /\ pc'[t] \in ServingStates
                /\ Len(conn'[t].log) = Len(conn[t].log) + 1
                /\ conn'[t].log[Len(conn'[t].log)].written]_vars

\* malformed JSON was answered with a failure and the request after it on
\* the same connection was answered with the handler's success
C19_Witness ==
    /\ Len(conn[1].log) = 2
    /\ conn[1].log[1].message = <<JMalformed>>
    /\ conn[1].log[1].written
    /\ ~conn[1].log[1].response[1].Success
    /\ conn[1].log[2].message = <<JPing1>>
    /\ conn[1].log[2].written
    /\ conn[1].log[2].response[1].Success
    /\ conn[1].log[2].response[1].Id = "1"
    /\ Serving(1)

\* C20: every message the framer extracts is answered with one response
\* written to its connection, whatever the dispatcher or the handler did:
\* while the peer is connected and the transport does not fail, the
\* processing of a message ends with a response that was written.
C20_EveryMessageIsAnswered ==
    [][\A t \in Tasks :
          (/\ Len(conn'[t].log) = Len(conn[t].log) + 1
           /\ ~conn[t].peerClosed
           /\ faults' = faults) =>
              /\ conn'[t].log[Len(conn'[t].log)].response # <<>>
              /\ conn'[t].log[Len(conn'[t].log)].written]_vars

\* C21: StopAsync tolerates tracked tasks that do not run to completion: it
\* leaves its await only when every tracked task has completed, canceled
\* ones included, and then returns normally with the list cleared.
C21_StopToleratesTaskFailures ==
    [][(ctl = "stopWait" /\ ctl' = "idle") =>
          /\ \A i \in 1..Len(stopSnapshot) : pc[stopSnapshot[i]] \in CompletedStates
          /\ lastOp' = "stop"
          /\ activePipeHandlers' = <<>>]_vars

\* stop has returned normally although one tracked task ended canceled (in
\* the pause after an accept fault) while another ran to completion after
\* serving a client
C21_Witness ==
    /\ lastOp = "stop"
    /\ activePipeHandlers = <<>>
    /\ faults > 0
    /\ \E t \in 1..NumAcceptors : pc[t] = "canceled"
    /\ \E t \in 1..NumAcceptors : pc[t] = "ranToCompletion" /\ conn[t].log # <<>>

\* C22: when a connection ends, closed (a read returns 0 bytes or the pipe
\* has ended) or faulted (another exception of the read), its worker returns
\* and does not go back to that connection: the acceptor, if cancellation
\* has not been requested, waits for a new client, and an acceptor that
\* waits has a fresh pipe instance and no buffer of an earlier connection.
C22_EndedConnectionIsNotRetried ==
    /\ [](\A t \in Tasks :
            pc[t] \in {"accept", "delay"} =>
                /\ conn[t].wire = <<>>
                /\ conn[t].messageBuilder = <<>>
                /\ conn[t].cur = NoCur
                /\ ~conn[t].peerClosed
                /\ ~conn[t].broken)
    /\ [][\A t \in Tasks :
            (pc[t] = "read" /\ pc'[t] \notin ServingStates) =>
                /\ pc'[t] = IF cancellationRequested THEN "ranToCompletion" ELSE "accept"
                /\ conn'[t].messageBuilder = <<>>
                /\ conn'[t].wire = <<>>]_vars

\* a connection that had been served ended and its acceptor waits for the
\* next client on a running server
C22_Witness ==
    /\ isRunning
    /\ ~cancellationRequested
    /\ \E t \in Tasks :
          /\ pc[t] = "accept"
          /\ conn[t].log # <<>>
          /\ conn[t].log[Len(conn[t].log)].written

\* C23: an I/O exception on a connection that is not a normal disconnect,
\* raised by a read or by the write of a response, tears the connection
\* down: after it the worker is not serving that connection any more, so no
\* later message of the connection is dispatched.
C23_IoFaultTearsConnectionDown ==
    [][\A t \in Tasks :
          (/\ faults' = faults + 1
           /\ pc[t] \in {"read", "write"}
           /\ ~conn[t].peerClosed
           /\ (pc'[t] # pc[t] \/ conn'[t].log # conn[t].log)) =>
              pc'[t] \notin ServingStates]_vars

\* C24: every wait of an acceptor task is released by the cancellation
\* signal: once StopAsync has cancelled the token, a task that waits for a
\* client, for bytes or for the write of a response can go on by itself, so
\* that a stop whose tasks are not in a handler can always proceed towards
\* its return.
C24_CancellationReleasesEveryWait ==
    \A t \in Tasks :
        (cancellationRequested /\ pc[t] \in {"accept", "delay", "read", "write"}) =>
            ENABLED (\/ AcceptCancelled(t)
                     \/ DelayCancelled(t)
                     \/ ReadCancelled(t)
                     \/ SendResponseAsync(t))

\* C25: a handler that never returns on one connection does not keep the
\* other acceptor tasks from draining: after StopAsync has cancelled the
\* token, every task that has not completed and is not in a handler can go
\* on by itself towards its completion, whatever task sits in a handler.
C25_StuckHandlerBlocksNoOtherTask ==
    (cancellationRequested /\ \E u \in Tasks : pc[u] = "dispatch") =>
        \A t \in Tasks :
            pc[t] \in {"scheduled", "accept", "delay", "read", "write"} =>
                ENABLED (\/ TaskStart(t)
                         \/ AcceptCancelled(t)
                         \/ DelayCancelled(t)
                         \/ ReadCancelled(t)
                         \/ SendResponseAsync(t))

\* C26: a handler in progress on one connection delays only that
\* connection: while it has not returned, every other accepted connection
\* goes on by itself: bytes that have arrived are read and framed, its own
\* handler can return, and its response can be written.
C26_BlockedHandlerDelaysOnlyItsConnection ==
    \A u \in Tasks : pc[u] = "dispatch" =>
        \A t \in Tasks \ {u} :
            /\ (pc[t] = "read" /\ conn[t].wire # <<>>) =>
                   \E k \in 1..Len(conn[t].wire) : ENABLED ReadData(t, k)
            /\ pc[t] = "dispatch" =>
                   \E outcome \in AnsweringOutcomes : ENABLED Dispatch(t, outcome)
            /\ pc[t] = "write" => ENABLED SendResponseAsync(t)

\* one connection is in a handler for its first request and has no answer
\* yet; another connection has all its requests answered
C26_Witness ==
    \E u \in Tasks : \E t \in Tasks \ {u} :
        /\ pc[u] = "dispatch" /\ conn[u].log = <<>>
        /\ Len(conn[t].log) = RequestsPerConnection
        /\ \A i \in 1..Len(conn[t].log) : conn[t].log[i].written

\* C27: each acceptor task serves at most one connection at a time: the
\* connections served at the same time are never more than the acceptor
\* count, and a client is admitted only by a task that serves no connection.
C27_AtMostOneConnectionPerAcceptor ==
    /\ [](Cardinality({t \in Tasks : Serving(t)}) <= NumAcceptors)
    /\ [][connects' = connects + 1 =>
            \E t \in Tasks : /\ pc[t] = "accept"
                             /\ \A u \in Tasks \ {t} : pc'[u] = pc[u] /\ conn'[u] = conn[u]]_vars

\* every acceptor serves a connection while a further client could still
\* come: none is listening
C27_Witness ==
    /\ isRunning
    /\ Cardinality({t \in Tasks : Serving(t)}) = NumAcceptors
    /\ connects < MaxConnects
    /\ \A t \in Tasks : pc[t] # "accept"

C29_FaultIsContained ==
    [][\A t \in Tasks :
          LET ioFault == faults' = faults + 1 /\ (pc'[t] # pc[t] \/ conn'[t] # conn[t])
              handlerFault ==
                  /\ pc[t] = "dispatch" /\ pc'[t] # "dispatch"
                  /\ \/ pc'[t] = "write" /\ conn'[t].cur.outcome.kind = "throw"
                     \/ /\ Len(conn'[t].log) = Len(conn[t].log) + 1
                        /\ conn'[t].log[Len(conn'[t].log)].outcome.kind = "returnNull"
          IN (ioFault \/ handlerFault) =>
                /\ \A u \in Tasks \ {t} : pc'[u] = pc[u] /\ conn'[u] = conn[u]
                /\ UNCHANGED <<isRunning, cancellationRequested, activePipeHandlers,
                               taskCount, ctl, stopSnapshot>>]_vars

\* after a transport fault the server still runs and its token is not
\* cancelled; one task listens again while another, which has answered a
\* request, is writing the error response of a handler that threw
C29_Witness ==
    /\ isRunning /\ ~cancellationRequested /\ faults > 0
    /\ \E t \in Tasks : \E u \in Tasks \ {t} :
        /\ pc[t] \in {"accept", "delay"}
        /\ pc[u] = "write" /\ conn[u].cur.outcome.kind = "throw"
        /\ conn[u].log # <<>> /\ conn[u].log[1].written

\* C30: the modifications of one batch are applied all or none: when the
\* call has returned and one of its modifications failed, the object has
\* the items it had when the call began.
C30_BatchIsAtomic ==
    (batch.state = "returned" /\ batch.failureCount > 0) => metadata = batch.before

\* C31: a StartAsync that finds the server not running returns with all its
\* acceptor tasks created and added to the tracked list, without waiting for
\* any of them; a StopAsync called next, before any task has run, takes
\* exactly these tasks into the set it awaits.
C31_StartReturnsWithAllAcceptorsTracked ==
    /\ [][launches' = launches + 1 =>
            LET new == (taskCount + 1)..(taskCount + NumAcceptors) IN
            /\ lastOp' = "start" /\ ctl' = "idle"
            /\ activePipeHandlers' =
                   activePipeHandlers \o [i \in 1..NumAcceptors |-> taskCount + i]
            /\ \A t \in new : pc[t] = "none" /\ pc'[t] \in {"scheduled", "canceled"}]_vars
    /\ [][(lastOp = "start" /\ ctl = "idle" /\ ctl' = "stopWait") =>
            /\ Len(stopSnapshot') = NumAcceptors
            /\ {stopSnapshot'[i] : i \in 1..Len(stopSnapshot')}
                   = (taskCount - NumAcceptors + 1)..taskCount]_vars

\* StopAsync awaits, right after the start, all the acceptors, none of
\* which has run yet
C31_Witness ==
    /\ ctl = "stopWait"
    /\ Len(stopSnapshot) = NumAcceptors
    /\ \A i \in 1..Len(stopSnapshot) : pc[stopSnapshot[i]] = "scheduled"

\* C32: complete messages that a worker holds when the token is cancelled
\* are all dispatched and answered before the worker leaves its connection:
\* a worker leaves, on a cancelled token, only from a read or after the
\* write of a response, and with no complete message left in its builder.
C32_BufferedMessagesSurviveCancellation ==
    [][\A t \in Tasks :
          (cancellationRequested /\ Serving(t) /\ ~(pc'[t] \in ServingStates)) =>
              /\ pc[t] \in {"read", "write"}
              /\ ~ExtractCompleteMessage(conn[t].messageBuilder).found
              /\ pc[t] = "write" =>
                     /\ Len(conn'[t].log) = Len(conn[t].log) + 1
                     /\ conn'[t].log[Len(conn'[t].log)].message = conn[t].cur.message]_vars

\* C33: every StopAsync call returns only when every acceptor task has
\* completed, also a call made while an earlier call is in its await.
C33_EveryStopReturnsAfterDrain ==
    [][\A c \in Callers :
          (callers'[c].calls = callers[c].calls + 1
           /\ callers'[c].last \in {"stop", "stopNoop"}) =>
              \A t \in Tasks : pc'[t] \in CompletedStates \cup {"none"}]_vars

\* C34: StartAsync calls that run at the same time on a server that is not
\* running launch one set of acceptors: the tracked list never has more
\* than _maxConnections entries.
C34_ConcurrentStartsLaunchOnce ==
    Len(activePipeHandlers) <= NumAcceptors

\* C35: the framing buffer of a connection holds bytes of that connection
\* only: a worker starts with an empty builder, and at every moment the
\* messages it has taken up, followed by what its builder holds, are exactly
\* the framing of the bytes it has read from its own client, whatever the
\* acceptor's previous connection left behind.
C35_BufferBelongsToItsConnection ==
    /\ [](\A t \in Tasks : Serving(t) =>
            LET c == conn[t]
                own == Flatten(c.sent)
                whole == ReadAndFrame(<<>>, SubSeq(own, 1, Len(own) - Len(c.wire)))
                pending == ExtractAll(c.messageBuilder)
                handled == [i \in 1..Len(c.log) |-> c.log[i].message]
                               \o (IF pc[t] \in {"dispatch", "write"}
                                   THEN <<c.cur.message>> ELSE <<>>)
            IN /\ handled \o pending.messages = whole.messages
               /\ pending.builder = whole.builder)
    /\ [][\A t \in Tasks : (pc[t] = "accept" /\ pc'[t] \in ServingStates) =>
            /\ conn'[t].messageBuilder = <<>>
            /\ conn'[t].log = <<>> /\ conn'[t].sent = <<>>]_vars

\* a connection has had a request answered on an acceptor whose previous
\* connection ended with undelimited bytes in its builder
C35_Witness ==
    \E t \in Tasks :
        /\ Serving(t)
        /\ conn[t].discarded # <<>>
        /\ conn[t].log # <<>> /\ conn[t].log[1].written
        /\ conn[t].log[1].response[1].Success

\* C36: only bytes followed by a delimiter become a message: a worker has
\* never taken up more messages than delimiters it has read, and when it
\* leaves its connection from a read (the client closed, the read failed or
\* was cancelled) what its builder holds, with the bytes of a last read that
\* brought no delimiter, is dropped: the step adds nothing to the messages
\* dispatched and answered.
C36_UndelimitedTailIsDiscarded ==
    /\ [](\A t \in Tasks : Serving(t) =>
            LET c == conn[t]
                own == Flatten(c.sent)
                consumed == SubSeq(own, 1, Len(own) - Len(c.wire))
                handled == Len(c.log) + (IF pc[t] \in {"dispatch", "write"} THEN 1 ELSE 0)
            IN handled <= Cardinality({i \in 1..Len(consumed) : consumed[i] = ByteNL}))
    /\ [][\A t \in Tasks : (pc[t] = "read" /\ ~(pc'[t] \in ServingStates)) =>
            /\ SubSeq(conn'[t].discarded, 1, Len(conn[t].messageBuilder))
                   = conn[t].messageBuilder
            /\ ~ExtractCompleteMessage(conn'[t].discarded).found
            /\ conn'[t].log = conn[t].log
            /\ conn'[t].cur = NoCur
            /\ pc'[t] \in {"accept", "ranToCompletion"}]_vars

\* the server has been stopped; one worker had left a connection whose
\* client wrote a request without its delimiter, another a connection of
\* which it had read a request without its delimiter; neither request was
\* dispatched
C36_Witness ==
    /\ lastOp = "stop"
    /\ \E t \in Tasks : \E u \in Tasks \ {t} :
        /\ conn[t].sent = <<<<JPing1>>>> /\ conn[t].discarded = <<JPing1>>
        /\ conn[t].log = <<>>
        /\ conn[u].sent = <<<<JPing1, ByteNL>>>> /\ conn[u].discarded = <<JPing1>>
        /\ conn[u].log = <<>>

\* C37: when the handler of a request returns null, the worker goes on to
\* the write of a response with success = false for that request and does
\* not leave its connection.
C37_NullResultIsAnswered ==
    [][\A t \in Tasks : \A outcome \in HandlerOutcomes :
          (outcome.kind = "returnNull" /\ Dispatch(t, outcome)) =>
              /\ pc'[t] = "write"
              /\ conn'[t].cur.response # <<>>
              /\ ~conn'[t].cur.response[1].Success]_vars

\* C38: the loop of executeObjectModification takes the modifications one
\* by one in array order and records one result for each, failed or not:
\* at every moment there is one result for each modification taken so far,
\* in order, and the two counters add up to their number; when the call has
\* returned these are all the modifications of the array.
C38_OneResultPerModification ==
    /\ Len(batch.operationResults) = batch.i
    /\ batch.i <= Len(batch.modifications)
    /\ batch.successCount + batch.failureCount = batch.i
    /\ batch.successCount
           = Cardinality({k \in 1..batch.i : batch.operationResults[k].success})
    /\ \A k \in 1..batch.i :
          /\ batch.operationResults[k].methodName = batch.modifications[k].methodName
          /\ batch.operationResults[k].parameters = batch.modifications[k].Name
    /\ batch.state = "returned" => batch.i = Len(batch.modifications)

\* a call has returned whose first modification failed and whose second one
\* was applied after that
C38_Witness ==
    /\ batch.state = "returned"
    /\ Len(batch.modifications) = 2
    /\ ~batch.operationResults[1].success
    /\ batch.operationResults[2].success
    /\ batch.successCount = 1 /\ batch.failureCount = 1
    /\ metadata # batch.before

\* C39: when createForm has returned, the client it connected is
\* disconnected, whatever the path: list_patterns, create, create with a
\* missing formName, a sendRequest that throws.  Violated: with mode "create"
\* and no formName the handler returns from inside the try block, and when
\* sendRequest throws the catch block returns, both without
\* client.disconnect().
C39_EveryConnectIsDisconnected ==
    form.state = "returned" => ~form.connected

\* C40: EnsureInitialized under concurrent requests.  At most one thread is
\* inside database discovery (DiscoverXRefDatabase and the connectivity
\* check) at any moment; once a call has returned true, _isInitialized stays
\* set, _connectionString is never assigned again and no thread enters
\* discovery; an attempt that returns false leaves _isInitialized unset, so
\* the next request that reaches the lock runs discovery again; and a thread
\* is at the query only while the handler is initialized with a connection
\* string.
C40_InitializedOnceUnderLock ==
    [][/\ Cardinality({r \in Requests : xref'.at[r] \in {"discovering", "opening"}}) <= 1
       /\ xref.returnedTrue =>
             /\ xref'.isInitialized
             /\ xref'.connectionString = xref.connectionString
             /\ \A r \in Requests : xref'.at[r] \notin {"discovering", "opening"}
       /\ \A r \in Requests :
             /\ (xref.at[r] \in {"discovering", "opening"} /\ xref'.at[r] = "idle")
                   => ~xref'.isInitialized
             /\ (xref.at[r] = "lockWait" /\ xref'.at[r] # "lockWait" /\ ~xref.isInitialized)
                   => xref'.at[r] = "discovering"
             /\ xref'.at[r] = "query"
                   => xref'.isInitialized /\ xref'.connectionString \in Databases
             /\ xref'.last[r] # xref.last[r] /\ xref'.last[r] \notin {<<"invalid">>, <<"not available">>}
                   => xref.isInitialized /\ xref'.last[r] = <<"queried", xref.connectionString>>
      ]_vars

\* C40 witness: after a failed attempt, one thread is at the query with the
\* handler initialized while the other, which read _isInitialized before it
\* was set, is still waiting for the lock
C40_Witness ==
    /\ xref.failed
    /\ xref.isInitialized
    /\ \E r, q \in Requests : xref.at[r] = "query" /\ xref.at[q] = "lockWait"

====
